---- MODULE Spec2Model ----
(***************************************************************************)
(* A model of the task-management backend: the Task model (scoring,        *)
(* create / update / delete / findAll / getStatistics), the tasks and      *)
(* users tables of the SQLite schema, and the /api/tasks routes with       *)
(* their authentication, validation and ownership middleware.              *)
(*                                                                         *)
(* JavaScript values are encoded as follows.  A JS string is the TLA+      *)
(* string with the same characters.  The non-string values that the code   *)
(* can meet are tokens in angle brackets: <undefined>, <null>, <true>,     *)
(* <false>, <0>, <1>, <5>.  A date is a sequence: << >> when the field is   *)
(* absent, <<t>> for the instant t, counted in clock ticks.  A JS number    *)
(* is an integer; the two non-numeric results a numeric expression of the  *)
(* code can produce, NaN and a function object, are the negative           *)
(* integers NaN and FunctionObject, which no score or percentage takes.    *)
(* A JS object is a function from its own keys to values.                  *)
(***************************************************************************)
EXTENDS Integers, Sequences, FiniteSets, TLC

VARIABLES tasks, now, obj, out, res, found, users, calls

vars == <<tasks, now, obj, out, res, found, users, calls>>

----------------------------------------------------------------------------
(* Bounds *)

\* the clock runs from 0 to MaxNow ticks
MaxNow == 1
\* clock ticks in a day (a tick is half a day)
TicksPerDay == 2
\* the tasks table holds at most MaxTasks rows
MaxTasks == 2
\* due dates reach MaxDueDays days after the origin of the clock
MaxDueDays == 9
\* and MinDueTicks ticks before it
MinDueTicks == 3
\* statistics are computed for an owner of up to MaxOwnerTasks tasks
MaxOwnerTasks == 40
\* the users table holds at most MaxUsers rows
MaxUsers == 3

----------------------------------------------------------------------------
(* JavaScript values *)

Undefined == "<undefined>"
Null == "<null>"
JsTrue == "<true>"
JsFalse == "<false>"
JsZero == "<0>"
JsOne == "<1>"
JsFive == "<5>"
NaN == 0 - 1
FunctionObject == 0 - 2
NoDate == << >>

\* the values that are not strings
NonStrings == {Undefined, Null, JsTrue, JsFalse, JsZero, JsOne, JsFive}

\* ToBoolean of a string or token
Falsy(v) == v \in {Undefined, Null, "", JsFalse, JsZero}
Truthy(v) == ~Falsy(v)

\* a || b
Or(a, b) == IF Truthy(a) THEN a ELSE b

\* o[k] for an own key, undefined otherwise
Get(o, k) == IF k \in DOMAIN o THEN o[k] ELSE Undefined
GetDate(o, k) == IF k \in DOMAIN o THEN o[k] ELSE NoDate
GetNum(o, k) == IF k \in DOMAIN o THEN o[k] ELSE 0

EmptyObject == << >>

\* Object.assign(target, source), and the spread {...a, ...b}
Assign(target, source) ==
  [k \in DOMAIN target \cup DOMAIN source |->
     IF k \in DOMAIN source THEN source[k] ELSE target[k]]

\* the property names every object literal inherits from Object.prototype
ObjectPrototypeKeys ==
  {"constructor", "toString", "valueOf", "hasOwnProperty", "__proto__"}

\* literal[key] || fallback, for an object literal with numeric values:
\* an own key gives its number (0 is falsy and gives the fallback), an
\* inherited key gives the inherited function, any other key the fallback
LookupOr(literal, key, fallback) ==
  IF key \in DOMAIN literal
    THEN (IF literal[key] = 0 THEN fallback ELSE literal[key])
    ELSE IF key \in ObjectPrototypeKeys THEN FunctionObject
    ELSE fallback

\* the property key a value is converted to (String(v))
ToKey(v) ==
  CASE v = Undefined -> "undefined"
    [] v = Null -> "null"
    [] OTHER -> v

\* number + number, where a function object operand turns the sum into a
\* string and so, once passed to Math.min, into NaN
Plus(a, b) == IF a < 0 \/ b < 0 THEN NaN ELSE a + b

\* Math.min(x, 100)
MathMin100(x) == IF x < 0 THEN NaN ELSE IF x < 100 THEN x ELSE 100

IsNumber(x) == x >= 0

----------------------------------------------------------------------------
(* Task: constructor and the two derived fields *)

statusPercentages ==
  [TODO |-> 0, IN_PROGRESS |-> 50, COMPLETED |-> 100, CANCELLED |-> 0]

priorityWeights ==
  [LOW |-> 10, MEDIUM |-> 25, HIGH |-> 40, URGENT |-> 60]

\* new Task(data); uuid is the value uuidv4() would return
NewTask(data, uuid) ==
  [id |-> Or(Get(data, "id"), uuid),
   title |-> Get(data, "title"),
   description |-> Get(data, "description"),
   status |-> Or(Get(data, "status"), "TODO"),
   priority |-> Or(Get(data, "priority"), "MEDIUM"),
   is_urgent |-> Or(Get(data, "is_urgent"), JsFalse),
   due_date |-> GetDate(data, "due_date"),
   completion_percentage |-> GetNum(data, "completion_percentage"),
   priority_score |-> GetNum(data, "priority_score"),
   user_id |-> Get(data, "user_id"),
   created_at |-> GetDate(data, "created_at"),
   updated_at |-> GetDate(data, "updated_at")]

\* task.calculateCompletionPercentage()
calculateCompletionPercentage(task) ==
  LookupOr(statusPercentages, ToKey(task.status), 0)

\* moment(a).diff(moment(b), 'days'): the difference in days, truncated
\* towards zero
DiffDays(a, b) ==
  IF a >= b THEN (a - b) \div TicksPerDay ELSE 0 - ((b - a) \div TicksPerDay)

\* the due date branch of calculatePriorityScore at clock value t
DueContribution(due_date, t) ==
  IF due_date = NoDate THEN 0
  ELSE LET daysUntilDue == DiffDays(due_date[1], t)
       IN IF daysUntilDue < 0 THEN 40
          ELSE IF daysUntilDue <= 1 THEN 35
          ELSE IF daysUntilDue <= 3 THEN 25
          ELSE IF daysUntilDue <= 7 THEN 15
          ELSE 5

\* task.calculatePriorityScore() at clock value t
calculatePriorityScore(task, t) ==
  LET base == Plus(0, LookupOr(priorityWeights, ToKey(task.priority), 25))
      urgent == IF Truthy(task.is_urgent) THEN Plus(base, 20) ELSE base
      score == Plus(urgent, DueContribution(task.due_date, t))
  IN MathMin100(score)

----------------------------------------------------------------------------
(* The tasks table *)

\* how a bound parameter is stored: undefined is left unbound, which
\* SQLite reads as NULL
Bind(v) == IF v = Undefined THEN Null ELSE v

\* the CHECK constraints of the status and priority columns (a NULL passes)
CheckStatus(v) == v = Null \/ v \in {"TODO", "IN_PROGRESS", "COMPLETED", "CANCELLED"}
CheckPriority(v) == v = Null \/ v \in {"LOW", "MEDIUM", "HIGH", "URGENT"}

\* the column constraints of CREATE TABLE tasks, for a row of bound values
RowConstraints(row) ==
  /\ row.title # Null
  /\ row.user_id # Null
  /\ CheckStatus(row.status)
  /\ CheckPriority(row.priority)

\* the row the INSERT of Task.create writes for a task object at clock
\* value t: the bound values, and CURRENT_TIMESTAMP for the two timestamps
RowOf(task, t) ==
  [id |-> task.id,
   title |-> Bind(task.title),
   description |-> Bind(task.description),
   status |-> Bind(task.status),
   priority |-> Bind(task.priority),
   is_urgent |-> IF Truthy(task.is_urgent) THEN JsOne ELSE JsZero,
   due_date |-> task.due_date,
   completion_percentage |-> task.completion_percentage,
   priority_score |-> task.priority_score,
   user_id |-> Bind(task.user_id),
   created_at |-> <<t>>,
   updated_at |-> <<t>>]

\* Task.findById(id) on table tbl: a task object, or Null
HasTask(tbl, id) == id \in DOMAIN tbl

\* Task.findById with a SELECT that leaves the two derived columns out
findByIdUnscored(tbl, id) ==
  NewTask([k \in DOMAIN tbl[id] \ {"completion_percentage", "priority_score"}
             |-> tbl[id][k]], id)

findById(tbl, id) == NewTask(tbl[id], id)

\* Task.create with INSERT OR REPLACE in place of INSERT
TaskCreateOrReplace(tbl, taskData, uuid, t) ==
  IF Falsy(Get(taskData, "title")) \/ Falsy(Get(taskData, "user_id"))
    THEN [ok |-> FALSE, error |-> "Title and user_id are required", table |-> tbl]
    ELSE LET task0 == NewTask(taskData, uuid)
             task1 == [task0 EXCEPT !.completion_percentage =
                                       calculateCompletionPercentage(task0)]
             task == [task1 EXCEPT !.priority_score =
                                       calculatePriorityScore(task1, t)]
             row == RowOf(task, t)
         IN IF RowConstraints(row)
              THEN [ok |-> TRUE, error |-> "", id |-> row.id,
                    table |-> Assign(tbl, [i \in {row.id} |-> row])]
              ELSE [ok |-> FALSE, error |-> "SQLITE_CONSTRAINT", table |-> tbl]

\* Task.create without the check of title and user_id
TaskCreateUnchecked(tbl, taskData, uuid, t) ==
  LET task0 == NewTask(taskData, uuid)
      task1 == [task0 EXCEPT !.completion_percentage =
                                calculateCompletionPercentage(task0)]
      task == [task1 EXCEPT !.priority_score = calculatePriorityScore(task1, t)]
      row == RowOf(task, t)
  IN IF RowConstraints(row) /\ ~HasTask(tbl, row.id)
       THEN [ok |-> TRUE, error |-> "", id |-> row.id,
             table |-> Assign(tbl, [i \in {row.id} |-> row])]
       ELSE [ok |-> FALSE, error |-> "SQLITE_CONSTRAINT", table |-> tbl]

\* Task.create(taskData) at clock value t, uuid being what uuidv4() returns
TaskCreate(tbl, taskData, uuid, t) ==
  IF Falsy(Get(taskData, "title")) \/ Falsy(Get(taskData, "user_id"))
    THEN [ok |-> FALSE, error |-> "Title and user_id are required", table |-> tbl]
    ELSE LET task0 == NewTask(taskData, uuid)
             task1 == [task0 EXCEPT !.completion_percentage =
                                       calculateCompletionPercentage(task0)]
             task == [task1 EXCEPT !.priority_score =
                                       calculatePriorityScore(task1, t)]
             row == RowOf(task, t)
         IN IF RowConstraints(row) /\ ~HasTask(tbl, row.id)
              THEN [ok |-> TRUE, error |-> "", id |-> row.id,
                    table |-> Assign(tbl, [i \in {row.id} |-> row])]
              ELSE [ok |-> FALSE, error |-> "SQLITE_CONSTRAINT", table |-> tbl]

\* Task.update skipping the recalculation of the derived fields
AssignOnly(task, updateData, t) == Assign(task, updateData)

\* Task.update, between the read and the write: Object.assign and the
\* recalculation of the derived fields at clock value t
AssignAndRecalculate(task, updateData, t) ==
  LET task0 == Assign(task, updateData)
      task1 == [task0 EXCEPT !.completion_percentage =
                                calculateCompletionPercentage(task0)]
  IN [task1 EXCEPT !.priority_score = calculatePriorityScore(task1, t)]

\* Task.update with an UPDATE that also sets the id and user_id columns
\* from the task object
TaskUpdateAllColumns(tbl, id, updateData, t) ==
  IF ~HasTask(tbl, id)
    THEN [ok |-> FALSE, error |-> "Task not found", table |-> tbl]
    ELSE LET task == AssignAndRecalculate(findById(tbl, id), updateData, t)
             row == [RowOf(task, t) EXCEPT !.created_at = tbl[id].created_at]
         IN IF RowConstraints(row)
              THEN [ok |-> TRUE, error |-> "", id |-> id,
                    table |-> [tbl EXCEPT ![id] = row]]
              ELSE [ok |-> FALSE, error |-> "SQLITE_CONSTRAINT", table |-> tbl]

\* Task.update(id, updateData) at clock value t
TaskUpdate(tbl, id, updateData, t) ==
  IF ~HasTask(tbl, id)
    THEN [ok |-> FALSE, error |-> "Task not found", table |-> tbl]
    ELSE LET task == AssignAndRecalculate(findById(tbl, id), updateData, t)
             \* UPDATE ... WHERE id = ?: the id, user_id and created_at columns
             \* are not set
             row == [RowOf(task, t) EXCEPT !.id = id,
                                           !.user_id = tbl[id].user_id,
                                           !.created_at = tbl[id].created_at]
         IN IF RowConstraints(row)
              THEN [ok |-> TRUE, error |-> "", id |-> id,
                    table |-> [tbl EXCEPT ![id] = row]]
              ELSE [ok |-> FALSE, error |-> "SQLITE_CONSTRAINT", table |-> tbl]

\* Task.delete with a DELETE that has no WHERE clause
TaskDeleteAll(tbl, id) == [ok |-> DOMAIN tbl # {}, table |-> << >>]

\* Task.delete(id): the table afterwards, and whether a row was deleted
TaskDelete(tbl, id) ==
  [ok |-> HasTask(tbl, id),
   table |-> [i \in DOMAIN tbl \ {id} |-> tbl[i]]]

----------------------------------------------------------------------------
(* Input domains *)

Users == {"u1", "u2"}

Times == 0 .. MaxNow
DueTicks == (0 - MinDueTicks) .. (MaxDueDays * TicksPerDay)
DueDates == {NoDate} \cup {<<d>> : d \in DueTicks}

Statuses == {"TODO", "IN_PROGRESS", "COMPLETED", "CANCELLED"}
Priorities == {"LOW", "MEDIUM", "HIGH", "URGENT"}

\* status and priority values a caller of the model can pass
StatusValues == Statuses \cup {Undefined, Null, "", "BOGUS", "constructor"}
PriorityValues == Priorities \cup {Undefined, Null, "", "BOGUS", "constructor"}

\* is_urgent values: booleans, numbers, the strings isBoolean accepts
UrgentValues ==
  {Undefined, JsTrue, JsFalse, JsOne, JsZero, "true", "false", "1", "0"}

----------------------------------------------------------------------------
(* SpecScore: the scoring functions applied to task objects *)

NoResult == [op |-> "none"]

\* no call of the models is in flight
NoCalls == << >>

\* a row of the users table
UserRow(id) ==
  [id |-> id, username |-> id, email |-> id, password |-> "hash",
   created_at |-> <<0>>, updated_at |-> <<0>>]

\* the users table with the users of the model registered
RegisteredUsers == [id \in Users |-> UserRow(id)]

InitCommon ==
  /\ users = RegisteredUsers
  /\ calls = NoCalls
  /\ tasks = << >>
  /\ res = NoResult
  /\ found = NoResult

InitScore ==
  /\ InitCommon
  /\ now = 0
  /\ out = NoResult
  /\ \E s \in StatusValues, p \in PriorityValues, u \in UrgentValues,
        d \in DueDates :
       obj = NewTask([title |-> "a", user_id |-> "u1", status |-> s,
                      priority |-> p, is_urgent |-> u, due_date |-> d], "t1")

CalcCompletion ==
  /\ out' = [op |-> "completion", at |-> now,
             value |-> calculateCompletionPercentage(obj)]
  /\ UNCHANGED <<tasks, now, obj, res, found, users, calls>>

CalcScore ==
  /\ out' = [op |-> "score", at |-> now,
             value |-> calculatePriorityScore(obj, now)]
  /\ UNCHANGED <<tasks, now, obj, res, found, users, calls>>

Tick ==
  /\ now < MaxNow
  /\ now' = now + 1
  /\ UNCHANGED <<tasks, obj, out, res, found, users, calls>>

NextScore == CalcCompletion \/ CalcScore \/ Tick

SpecScore == InitScore /\ [][NextScore]_vars

----------------------------------------------------------------------------
(* Spec: calls of Task.create, Task.update and Task.delete on the table *)

\* the objects with at most the key k, its value drawn from Vals
Field(k, Vals) == {EmptyObject} \cup {[x \in {k} |-> v] : v \in Vals}
Both(A, B) == {Assign(a, b) : a \in A, b \in B}

\* the ids uuidv4() can return
Uuids == {"t1", "t2"}

\* a due date in the 2-3 days bucket at time 0 that moves to the 0-1 days
\* bucket by time 1, and one that is overdue by less than a day at time 0
DueSoon == <<2 * TicksPerDay>>
DueJustPassed == <<0 - 1>>

ModelCreateDatas ==
  Both([title : {"a"}, user_id : {"u1"}],
       Field("status", {"constructor"})
       \cup Field("due_date", {DueSoon, DueJustPassed})
       \cup Field("is_urgent", {JsTrue, "false"}))

ModelUpdateDatas ==
  Field("status", {"IN_PROGRESS", Null, ""})
  \cup Field("priority", {"LOW", "constructor"})
  \cup Field("is_urgent", {JsFalse})
  \cup Field("due_date", {NoDate})
  \cup Both([status : {"IN_PROGRESS"}, priority : {"LOW"}],
            Both(Field("completion_percentage", {33}),
                 Field("priority_score", {77})))

Init ==
  /\ InitCommon
  /\ now = 0
  /\ obj = NoResult
  /\ out = NoResult

Create(taskData, uuid) ==
  /\ Cardinality(DOMAIN tasks) < MaxTasks
  /\ LET r == TaskCreate(tasks, taskData, uuid, now)
     IN /\ tasks' = r.table
        /\ res' = [op |-> "create", ok |-> r.ok, error |-> r.error]
  /\ UNCHANGED <<now, obj, out, found, users, calls>>

Update(id, updateData) ==
  /\ LET r == TaskUpdate(tasks, id, updateData, now)
     IN /\ tasks' = r.table
        /\ res' = [op |-> "update", ok |-> r.ok, error |-> r.error]
  /\ UNCHANGED <<now, obj, out, found, users, calls>>

Delete(id) ==
  /\ LET r == TaskDelete(tasks, id)
     IN /\ tasks' = r.table
        /\ res' = [op |-> "delete", ok |-> r.ok, error |-> "", id |-> id]
  /\ UNCHANGED <<now, obj, out, found, users, calls>>

Next ==
  \/ \E taskData \in ModelCreateDatas, uuid \in Uuids \ DOMAIN tasks :
       Create(taskData, uuid)
  \/ \E id \in Uuids, updateData \in ModelUpdateDatas : Update(id, updateData)
  \/ \E id \in Uuids : Delete(id)
  \/ Tick

Spec == Init /\ [][Next]_vars

----------------------------------------------------------------------------
(* SpecApi: requests of authenticated users on /api/tasks *)

\* express-validator's isIn on an optional field: an absent field passes
OptionalIsIn(body, k, allowed) == k \notin DOMAIN body \/ body[k] \in allowed

\* isBoolean(): the value, converted to a string, is true, false, 1 or 0
IsBooleanValue(v) == v \in {JsTrue, JsFalse, JsOne, JsZero, "true", "false", "1", "0"}

\* the shared rules without those of status and priority
UrgentRuleOnly(body) ==
  "is_urgent" \in DOMAIN body => IsBooleanValue(body.is_urgent)

\* the rules validateTaskCreation and validateTaskUpdate share
TaskFieldRules(body) ==
  /\ OptionalIsIn(body, "status", Statuses)
  /\ OptionalIsIn(body, "priority", Priorities)
  /\ "is_urgent" \in DOMAIN body => IsBooleanValue(body.is_urgent)

\* a validation chain without rules
AnyBody(body) == TRUE

\* validateTaskCreation: the title is required, 1 to 200 characters
validateTaskCreation(body) ==
  /\ Get(body, "title") \notin NonStrings \cup {""}
  /\ TaskFieldRules(body)

\* validateTaskUpdate: every field is optional
validateTaskUpdate(body) ==
  /\ "title" \in DOMAIN body => body.title \notin NonStrings \cup {""}
  /\ TaskFieldRules(body)

\* the status requireOwnership('task') answers with for user on task id,
\* 200 standing for the call of next()
requireOwnership(tbl, user, id) ==
  IF ~HasTask(tbl, id) THEN 404
  ELSE LET resource == findById(tbl, id)
       IN IF resource.user_id # user /\ resource.id # user THEN 403 ELSE 200

\* what is recorded of a request: the route, the authenticated user, the
\* task id, the owner of that task when the request arrived, whether the
\* route handler ran, the status of the response, and the body with its
\* is_urgent value
Response(op, user, id, owner, handler, code, body) ==
  [op |-> op, user |-> user, id |-> id, owner |-> owner,
   handler |-> handler, code |-> code, is_urgent |-> Get(body, "is_urgent"),
   body |-> body]

OwnerOf(tbl, id) == IF HasTask(tbl, id) THEN tbl[id].user_id ELSE Null

\* handleValidationErrors when a rule of the chain has failed: the response
\* it sends, next() not being called
ValidationFailed(response) ==
  Assign(response, [error |-> "Validation failed"])

\* POST /api/tasks
PostTask(user, body, uuid) ==
  /\ Cardinality(DOMAIN tasks) < MaxTasks
  /\ IF ~validateTaskCreation(body)
       THEN /\ res' = ValidationFailed(Response("POST", user, Null, Null,
                                                FALSE, 400, body))
            /\ UNCHANGED tasks
       ELSE LET taskData == Assign(body, [user_id |-> user])
                r == TaskCreate(tasks, taskData, uuid, now)
            IN /\ tasks' = r.table
               /\ res' = IF r.ok
                           THEN Response("POST", user, r.id, Null, TRUE, 201,
                                         body)
                           ELSE Response("POST", user, Null, Null, TRUE, 500,
                                         body)
  /\ UNCHANGED <<now, obj, out, found, users, calls>>

\* GET /api/tasks/:id
GetTask(user, id) ==
  /\ LET code == requireOwnership(tasks, user, id)
     IN res' = Response("GET", user, id, OwnerOf(tasks, id), code = 200, code,
                        EmptyObject)
  /\ UNCHANGED <<tasks, now, obj, out, found, users, calls>>

\* PUT /api/tasks/:id
PutTask(user, id, body) ==
  /\ IF ~validateTaskUpdate(body)
       THEN /\ res' = ValidationFailed(Response("PUT", user, id,
                                                OwnerOf(tasks, id), FALSE, 400,
                                                body))
            /\ UNCHANGED tasks
       ELSE LET code == requireOwnership(tasks, user, id)
            IN IF code # 200
                 THEN /\ res' = Response("PUT", user, id, OwnerOf(tasks, id),
                                         FALSE, code, body)
                      /\ UNCHANGED tasks
                 ELSE LET r == TaskUpdate(tasks, id, body, now)
                      IN /\ tasks' = r.table
                         /\ res' = Response("PUT", user, id, OwnerOf(tasks, id),
                                            TRUE, IF r.ok THEN 200 ELSE 500,
                                            body)
  /\ UNCHANGED <<now, obj, out, found, users, calls>>

\* DELETE /api/tasks/:id
DeleteTask(user, id) ==
  /\ LET code == requireOwnership(tasks, user, id)
     IN IF code # 200
          THEN /\ res' = Response("DELETE", user, id, OwnerOf(tasks, id),
                                  FALSE, code, EmptyObject)
               /\ UNCHANGED tasks
          ELSE LET r == TaskDelete(tasks, id)
               IN /\ tasks' = r.table
                  /\ res' = Response("DELETE", user, id, OwnerOf(tasks, id),
                                     TRUE, IF r.ok THEN 200 ELSE 404, EmptyObject)
  /\ UNCHANGED <<now, obj, out, found, users, calls>>

\* the ids uuidv4() returns in this specification, and the ids a request names
ApiUuids == {"t1", "t2"}
ApiIds == {"t1", "u2"}

PostBodies ==
  Both(Field("title", {"a"}),
  Both(Field("id", {"u2"}),
       Field("is_urgent", {JsTrue, JsFalse, "true", "false", "0", "yes"})))

PutBodies ==
  Field("title", {"b"})
  \cup Field("is_urgent", {JsTrue, JsFalse, "true", "false", "0", "yes"})

NextApi ==
  \/ \E user \in Users, body \in PostBodies, uuid \in ApiUuids \ DOMAIN tasks :
       PostTask(user, body, uuid)
  \/ \E user \in Users, id \in ApiIds : GetTask(user, id)
  \/ \E user \in Users, id \in ApiIds, body \in PutBodies : PutTask(user, id, body)
  \/ \E user \in Users, id \in ApiIds : DeleteTask(user, id)
  \/ Tick

SpecApi == Init /\ [][NextApi]_vars

----------------------------------------------------------------------------
(* SpecValidation: POST and PUT requests whose bodies pass or fail the     *)
(* validation chains                                                       *)

ValidationPostBodies ==
  Both(Field("title", {"a", ""}),
       Both(Field("status", {"COMPLETED", "BOGUS", Null}),
            Field("priority", {"HIGH", "urgent"})))
  \cup [title : {"a"}, is_urgent : {"yes"}]

ValidationPutBodies ==
  Both(Field("status", {"IN_PROGRESS", "done", ""}),
       Field("priority", {"LOW", Null}))
  \cup Field("title", {""})

NextValidation ==
  \/ \E user \in Users, body \in ValidationPostBodies,
        uuid \in ApiUuids \ DOMAIN tasks :
       PostTask(user, body, uuid)
  \/ \E user \in Users, id \in ApiUuids, body \in ValidationPutBodies :
       PutTask(user, id, body)

SpecValidation == Init /\ [][NextValidation]_vars

----------------------------------------------------------------------------
(* SpecOverwrite: POST requests whose bodies name the id of the new task *)

OverwritePostBodies ==
  Both([title : {"a", "b"}], Field("id", {"t1", "t2"}))
  \cup [title : {"c"}, id : {"t1"}, status : {"COMPLETED"}]

OverwriteCreateDatas == [title : {"d"}, user_id : {"u2"}, id : {"t1", "t2"}]

NextOverwrite ==
  \/ \E user \in Users, body \in OverwritePostBodies,
        uuid \in ApiUuids \ DOMAIN tasks : PostTask(user, body, uuid)
  \/ \E taskData \in OverwriteCreateDatas, uuid \in ApiUuids \ DOMAIN tasks :
       Create(taskData, uuid)
  \/ \E id \in ApiUuids : Delete(id)
  \/ Tick

SpecOverwrite == Init /\ [][NextOverwrite]_vars

----------------------------------------------------------------------------
(* SpecIdentity: requests and updates that name an id or an owner *)

IdentityPostBodies == Both([title : {"a"}], Field("user_id", {"u2", ""}))

IdentityUpdateDatas ==
  Both(Field("status", {"IN_PROGRESS"}),
       Both(Field("user_id", {"u2"}), Field("id", {"t2"})))

NextIdentity ==
  \/ \E user \in Users, body \in IdentityPostBodies,
        uuid \in ApiUuids \ DOMAIN tasks : PostTask(user, body, uuid)
  \/ \E user \in Users, id \in ApiUuids, body \in IdentityUpdateDatas :
       PutTask(user, id, body)
  \/ \E id \in ApiUuids, updateData \in IdentityUpdateDatas :
       Update(id, updateData)

SpecIdentity == Init /\ [][NextIdentity]_vars

----------------------------------------------------------------------------
(* SpecCreate: Task.create applied to one taskData *)

CreateDatas ==
  Both(Field("title", {"a", "", Null}),
  Both(Field("user_id", {"u1", ""}),
  Both(Field("status", {"COMPLETED"}),
  Both(Field("priority", {"HIGH"}),
  Both(Field("is_urgent", {JsTrue}), Field("due_date", {DueSoon}))))))

InitCreate ==
  /\ InitCommon
  /\ now = 0
  /\ out = NoResult
  /\ obj \in CreateDatas

NextCreate ==
  \/ \E uuid \in Uuids \ DOMAIN tasks : Create(obj, uuid)
  \/ \E id \in Uuids : Delete(id)

SpecCreate == InitCreate /\ [][NextCreate]_vars

----------------------------------------------------------------------------
(* SpecAuth: authenticateToken in front of GET /api/tasks/:id *)

\* An authorization header is the sequence of its parts split at spaces,
\* none for an absent header.  A token is [sig, userId, nbf, exp]: whether
\* it is a JWT signed with the secret, the userId of its payload, and the
\* clock values from which and until which it is valid.
Tokens ==
  [sig : {"good"}, userId : {"u1", "u3"}, nbf : {0, MaxNow},
   exp : {MaxNow, MaxNow + 1}]
  \cup [sig : {"bad"}, userId : {"u1"}, nbf : {0}, exp : {MaxNow + 1}]

AuthHeaders == {<< >>, <<"Bearer">>} \cup {<<"Bearer", token>> : token \in Tokens}

\* jwt.verify(token, secret) at clock value t: "ok", or the name of the
\* error it throws
jwtVerify(token, t) ==
  CASE token.sig # "good" -> "JsonWebTokenError"
    [] token.sig = "good" /\ token.nbf > t -> "NotBeforeError"
    [] token.sig = "good" /\ token.nbf <= t /\ t >= token.exp -> "TokenExpiredError"
    [] OTHER -> "ok"

\* what authenticateToken answers
Denied(code, error) == [next |-> FALSE, code |-> code, error |-> error, user |-> Null]

\* authenticateToken on the users table usrs at clock value t: whether
\* next() is called, with the id of req.user, or the response
authenticateToken(usrs, header, t) ==
  IF Len(header) < 2 THEN Denied(401, "Access token required")
  ELSE LET verified == jwtVerify(header[2], t)
       IN IF verified = "ok"
            THEN IF header[2].userId \in DOMAIN usrs
                   THEN [next |-> TRUE, code |-> 200, error |-> "",
                         user |-> header[2].userId]
                   ELSE Denied(401, "Invalid token")
          ELSE IF verified = "JsonWebTokenError" THEN Denied(401, "Invalid token")
          ELSE IF verified = "TokenExpiredError" THEN Denied(401, "Token expired")
          ELSE Denied(500, "Authentication error")

\* GET /api/tasks/:id behind router.use(authenticateToken)
AuthGetTask(header, id) ==
  /\ LET auth == authenticateToken(users, header, now)
         code == requireOwnership(tasks, auth.user, id)
     IN res' = Assign(IF auth.next
                        THEN Response("GET", auth.user, id, OwnerOf(tasks, id),
                                      code = 200, code, EmptyObject)
                        ELSE Response("GET", Null, id, OwnerOf(tasks, id),
                                      FALSE, auth.code, EmptyObject),
                      [header |-> header, authenticated |-> auth.next,
                       error |-> auth.error])
  /\ UNCHANGED <<tasks, now, obj, out, found, users, calls>>

\* User.delete(id); the tasks of the user stay, foreign keys not being
\* enforced
UserDelete(id) ==
  /\ users' = [u \in DOMAIN users \ {id} |-> users[u]]
  /\ UNCHANGED <<tasks, now, obj, out, res, found, calls>>

NextAuth ==
  \/ \E header \in AuthHeaders, id \in {"t1"} : AuthGetTask(header, id)
  \/ \E id \in {"u1"} : UserDelete(id)
  \/ \E uuid \in {"t1"} \ DOMAIN tasks :
       Create([title |-> "a", user_id |-> "u1"], uuid)
  \/ Tick

SpecAuth == Init /\ [][NextAuth]_vars

----------------------------------------------------------------------------
(* Task.findAll *)

allowedSortFields ==
  {"title", "status", "priority", "due_date", "created_at", "updated_at",
   "completion_percentage", "priority_score"}

allowedSortOrders == {"ASC", "DESC"}

\* String.prototype.toUpperCase on the strings of this model
ToUpperCase(str) ==
  CASE str \in {"asc", "Asc"} -> "ASC"
    [] str \in {"desc", "Desc"} -> "DESC"
    [] str = "foo" -> "FOO"
    [] OTHER -> str

\* a destructuring default: it applies to an absent or undefined property
Default(o, k, default) == IF Get(o, k) = Undefined THEN default ELSE o[k]
DefaultNum(o, k, default) == IF k \in DOMAIN o THEN o[k] ELSE default

\* sort_by without the allow-list
UncheckedSortBy(sort_by) == sort_by

ValidSortBy(sort_by) ==
  IF sort_by \in allowedSortFields THEN sort_by ELSE "created_at"

\* for a string; sort_order.toUpperCase() is a TypeError for anything else
ValidSortOrder(sort_order) ==
  IF ToUpperCase(sort_order) \in allowedSortOrders
    THEN ToUpperCase(sort_order) ELSE "DESC"

\* the characters of the titles, descriptions and search terms of the model
Chars(str) ==
  CASE str = "a" -> <<"a">>
    [] str = "A" -> <<"A">>
    [] str = "b" -> <<"b">>
    [] str = "ab" -> <<"a", "b">>
    [] OTHER -> << >>

LowerChar(c) == CASE c = "A" -> "a" [] c = "B" -> "b" [] OTHER -> c
Lower(chars) == [i \in 1 .. Len(chars) |-> LowerChar(chars[i])]

\* text LIKE '%' || term || '%': a substring match that ignores case; a
\* NULL text matches nothing
Like(text, term) ==
  /\ text # Null
  /\ LET t == Lower(Chars(text))
         p == Lower(Chars(term))
     IN \E i \in 0 .. (Len(t) - Len(p)) : SubSeq(t, i + 1, i + Len(p)) = p

\* whereConditions with is_urgent pushed only when it is truthy
TruthyConditions(options) ==
  {c \in {"user_id", "status", "priority", "search", "is_urgent"} :
     Truthy(Get(options, c))}

\* the conditions pushed on whereConditions, named by their column
WhereConditions(options) ==
  {c \in {"user_id", "status", "priority", "search"} : Truthy(Get(options, c))}
  \cup {c \in {"is_urgent"} : Get(options, c) # Undefined}

\* the parameter bound for is_urgent = ?, with 1 for every value
AlwaysOne(is_urgent) == JsOne

\* the parameter bound for is_urgent = ?
UrgentParam(is_urgent) == IF Truthy(is_urgent) THEN JsOne ELSE JsZero

\* whether a row satisfies one condition of the WHERE clause
ConditionHolds(row, c, options) ==
  CASE c = "is_urgent" -> row.is_urgent = UrgentParam(options.is_urgent)
    [] c = "search" ->
         Like(row.title, options.search) \/ Like(row.description, options.search)
    [] OTHER -> row[c] = options[c]

\* the WHERE clause built from the options
WhereMatches(row, options) ==
  \A c \in WhereConditions(options) : ConditionHolds(row, c, options)

\* the collating order of the text values of the model (NULL sorts first)
TextOrder ==
  <<Null, "CANCELLED", "COMPLETED", "HIGH", "IN_PROGRESS", "LOW", "MEDIUM",
    "TODO", "URGENT", "a", "ab", "b">>
TextRank(str) == CHOOSE i \in 1 .. Len(TextOrder) : TextOrder[i] = str
DateRank(date) == IF date = NoDate THEN 0 - (MinDueTicks + 1) ELSE date[1]

\* the value ORDER BY compares for a column
SortKey(row, column) ==
  CASE column = "title" -> TextRank(row.title)
    [] column = "status" -> TextRank(row.status)
    [] column = "priority" -> TextRank(row.priority)
    [] column = "due_date" -> DateRank(row.due_date)
    [] column = "created_at" -> row.created_at[1]
    [] column = "updated_at" -> row.updated_at[1]
    [] column = "completion_percentage" -> row.completion_percentage
    [] column = "priority_score" -> row.priority_score
    [] OTHER -> 0

\* the orders in which the store may return the rows ids for
\* ORDER BY column direction (rows with equal keys come in any order)
Orderings(tbl, ids, column, direction) ==
  {f \in [1 .. Cardinality(ids) -> ids] :
     \A i, j \in 1 .. Cardinality(ids) :
       i < j => /\ f[i] # f[j]
                /\ direction = "ASC" =>
                     SortKey(tbl[f[i]], column) <= SortKey(tbl[f[j]], column)
                /\ direction = "DESC" =>
                     SortKey(tbl[f[i]], column) >= SortKey(tbl[f[j]], column)}

\* LIMIT limit OFFSET offset of an ordered result (a negative LIMIT is no
\* limit, a negative OFFSET is 0)
LimitOffset(ordered, limit, offset) ==
  LET n == Len(ordered)
      first == IF offset < 0 THEN 0 ELSE offset
      last == IF limit < 0 \/ first + limit > n THEN n ELSE first + limit
  IN SubSeq(ordered, first + 1, last)

\* Math.ceil(total / limit), for limit # 0
CeilDiv(total, limit) ==
  IF limit > 0 THEN (total + limit - 1) \div limit
  ELSE 0 - (total \div (0 - limit))

\* the offset counted from page, not from page - 1
OffsetOfPage(page, limit) == page * limit

\* const offset = (page - 1) * limit
Offset(page, limit) == (page - 1) * limit

\* the ids the WHERE clause selects
Matched(tbl, options) == {id \in DOMAIN tbl : WhereMatches(tbl[id], options)}

\* Task.findAll(options), the store returning the selected rows in the
\* order ordered
findAll(tbl, options, ordered) ==
  LET page == DefaultNum(options, "page", 1)
      limit == DefaultNum(options, "limit", 10)
      sort_by == Default(options, "sort_by", "created_at")
      sort_order == Default(options, "sort_order", "DESC")
      offset == Offset(page, limit)
      rows == LimitOffset(ordered, limit, offset)
      total == Cardinality(Matched(tbl, options))
  IN [ok |-> TRUE,
      tasks |-> [i \in 1 .. Len(rows) |-> findById(tbl, rows[i])],
      counted |-> {<<id, tbl[id].user_id>> : id \in Matched(tbl, options)},
      query |-> [where |-> WhereConditions(options),
                 order_by |-> ValidSortBy(sort_by),
                 direction |-> ValidSortOrder(sort_order),
                 limit |-> limit, offset |-> offset],
      pagination |-> [page |-> page, limit |-> limit, total |-> total,
                      pages |-> CeilDiv(total, limit)],
      filters |-> [status |-> Get(options, "status"),
                   priority |-> Get(options, "priority"),
                   is_urgent |-> Get(options, "is_urgent"),
                   search |-> Get(options, "search")],
      sorting |-> [sort_by |-> ValidSortBy(sort_by),
                   sort_order |-> ValidSortOrder(sort_order)]]

\* whether Task.findAll(options) throws: sort_order.toUpperCase is not a
\* function unless sort_order is a string
findAllThrows(options) == Default(options, "sort_order", "DESC") \in NonStrings

----------------------------------------------------------------------------
(* SpecQuery: Task.findAll on tables filled by Task.create *)

QueryCreateDatas ==
  Both([title : {"a"}, user_id : {"u1"}], Field("is_urgent", {JsTrue}))
  \cup [title : {"b"}, user_id : {"u2"}]
  \cup [title : {"a"}, user_id : {"u1"}, status : {"COMPLETED"}]
  \cup [title : {"a"}, user_id : {"u1"}, priority : {"HIGH"}]

SortByValues == {"title", "priority_score", "malicious_field", Null}

SortOrderValues == {"ASC", "asc", "foo", Null, JsFive}

\* every combination of the three optional equality filters
FilterOptions ==
  Both(Field("status", {"TODO"}),
       Both(Field("priority", {"MEDIUM"}), Field("is_urgent", {JsTrue, JsFalse})))

\* pages of one and two tasks, and values validatePagination rejects
PageOptions ==
  [page : {1, 2}, limit : {1, 2}]
  \cup [page : {0}, limit : {1}] \cup Field("limit", {101})

QueryOptions ==
  Both([user_id : {"u1"}],
       Field("sort_by", SortByValues)
       \cup Field("sort_order", SortOrderValues)
       \cup FilterOptions
       \cup Field("search", {"A"})
       \cup PageOptions)
  \cup Field("user_id", {"u2", ""})
  \cup [sort_by : {"id; DROP TABLE tasks"}, sort_order : {"asc"}]

FindAll(options) ==
  /\ IF findAllThrows(options)
       THEN found' = [op |-> "findAll", options |-> options, ok |-> FALSE]
       ELSE LET sort_by == ValidSortBy(Default(options, "sort_by", "created_at"))
                sort_order == ValidSortOrder(Default(options, "sort_order", "DESC"))
            IN \E ordered \in Orderings(tasks, Matched(tasks, options),
                                        sort_by, sort_order) :
                 found' = Assign([op |-> "findAll", options |-> options,
                                  ordered |-> ordered],
                                 findAll(tasks, options, ordered))
  /\ UNCHANGED <<tasks, now, obj, out, res, users, calls>>

NextQuery ==
  \/ \E taskData \in QueryCreateDatas, uuid \in Uuids \ DOMAIN tasks :
       Create(taskData, uuid)
  \/ \E options \in QueryOptions : FindAll(options)
  \/ Tick

SpecQuery == Init /\ [][NextQuery]_vars

----------------------------------------------------------------------------
(* Task.getStatistics *)

\* Math.round of the quotient num / den of two integers, num >= 0, den > 0
\* (halves round up)
MathRound(num, den) == (2 * num + den) \div (2 * den)

\* The quotient completed / total and its product with 100 are IEEE 754
\* doubles.  A positive double is [m2, m1, m0, exp]: its 53-bit significand
\* m2 * 2^36 + m1 * 2^18 + m0 (m2 holds the leading 17 bits) and the
\* exponent exp of the leading bit.
Limb == 262144

\* the position of the first digit 1 of r / d in binary, for 0 < r <= d,
\* the digit of weight 2^0 being at position 1
RECURSIVE FirstOne(_, _)
FirstOne(r, d) == IF r >= d THEN 1 ELSE 1 + FirstOne(2 * r, d)

\* the significand after rounding, up telling whether to round up; carry
\* is 1 when rounding up reached the next power of two
Rounded(m2, m1, m0, up) ==
  IF ~up THEN [m2 |-> m2, m1 |-> m1, m0 |-> m0, carry |-> 0]
  ELSE IF m0 + 1 < Limb THEN [m2 |-> m2, m1 |-> m1, m0 |-> m0 + 1, carry |-> 0]
  ELSE IF m1 + 1 < Limb THEN [m2 |-> m2, m1 |-> m1 + 1, m0 |-> 0, carry |-> 0]
  ELSE IF m2 + 1 < 131072 THEN [m2 |-> m2 + 1, m1 |-> 0, m0 |-> 0, carry |-> 0]
  ELSE [m2 |-> 65536, m1 |-> 0, m0 |-> 0, carry |-> 1]

\* the double c / t for integers 0 < c <= t < 4096: long division of
\* c * 2^(z-1), which lies in [t, 2t), to 53 bits, rounded to nearest, ties
\* to even
Quotient(c, t) ==
  LET z == FirstOne(c, t)
      c0 == c * 2^(z - 1)
      m2 == (c0 * 65536) \div t
      r2 == (c0 * 65536) % t
      m1 == (r2 * Limb) \div t
      r1 == (r2 * Limb) % t
      m0 == (r1 * Limb) \div t
      r0 == (r1 * Limb) % t
      m == Rounded(m2, m1, m0, 2 * r0 > t \/ (2 * r0 = t /\ m0 % 2 = 1))
  IN [m2 |-> m.m2, m1 |-> m.m1, m0 |-> m.m0, exp |-> 1 - z + m.carry]

\* the double x * 100: the exact product has 53 + d bits, d being 6 or 7,
\* and is rounded to 53 bits to nearest, ties to even
Times100(x) ==
  LET p0 == x.m0 * 100
      p1 == x.m1 * 100 + p0 \div Limb
      p2 == x.m2 * 100 + p1 \div Limb
      l0 == p0 % Limb
      l1 == p1 % Limb
      d == IF p2 < 8388608 THEN 6 ELSE 7
      cut == 2^d
      n0 == l0 \div cut + (l1 % cut) * (Limb \div cut)
      n1 == l1 \div cut + (p2 % cut) * (Limb \div cut)
      n2 == p2 \div cut
      rem == l0 % cut
      m == Rounded(n2, n1, n0, 2 * rem > cut \/ (2 * rem = cut /\ n0 % 2 = 1))
  IN [m2 |-> m.m2, m1 |-> m.m1, m0 |-> m.m0, exp |-> x.exp + d + m.carry]

\* Math.round(x) for a positive double x below 2^15: floor(x + 0.5), from
\* the integer part of 2 * x
MathRoundDouble(x) == (x.m2 \div 2^(15 - x.exp) + 1) \div 2

\* Math.round((completed_tasks / total_tasks) * 100), for total_tasks > 0
RoundedPercent(completed, total) ==
  IF completed = 0 THEN 0
  ELSE MathRoundDouble(Times100(Quotient(completed, total)))

\* A column of the aggregate row is << >> when SQLite returns NULL (SUM and
\* AVG over no rows), <<n>> for a sum and <<sum, count>> for an average.
NoValue == << >>

\* every task counted, whatever its owner
AllRows(tbl, user_id) == DOMAIN tbl

\* WHERE user_id = ?
StatRows(tbl, user_id) == {id \in DOMAIN tbl : tbl[id].user_id = Bind(user_id)}

RECURSIVE SumOf(_, _, _)
SumOf(tbl, ids, column) ==
  IF ids = {} THEN 0
  ELSE LET id == CHOOSE i \in ids : TRUE
       IN tbl[id][column] + SumOf(tbl, ids \ {id}, column)

\* SUM(CASE WHEN column = value THEN 1 ELSE 0 END)
SumCase(tbl, ids, column, value) ==
  IF ids = {} THEN NoValue
  ELSE <<Cardinality({id \in ids : tbl[id][column] = value})>>

\* AVG(column)
Avg(tbl, ids, column) ==
  IF ids = {} THEN NoValue ELSE <<SumOf(tbl, ids, column), Cardinality(ids)>>

\* the row the SELECT of Task.getStatistics returns
Aggregate(tbl, user_id) ==
  LET ids == StatRows(tbl, user_id)
  IN [total_tasks |-> Cardinality(ids),
      completed_tasks |-> SumCase(tbl, ids, "status", "COMPLETED"),
      in_progress_tasks |-> SumCase(tbl, ids, "status", "IN_PROGRESS"),
      pending_tasks |-> SumCase(tbl, ids, "status", "TODO"),
      urgent_tasks |-> SumCase(tbl, ids, "is_urgent", JsOne),
      avg_completion |-> Avg(tbl, ids, "completion_percentage"),
      avg_priority_score |-> Avg(tbl, ids, "priority_score")]

\* sum || 0
SumOrZero(sum) == IF sum = NoValue THEN 0 ELSE sum[1]

\* Math.round(avg || 0)
RoundedAvg(avg) == IF avg = NoValue THEN 0 ELSE MathRound(avg[1], avg[2])

\* the object Task.getStatistics builds from the aggregate row
StatisticsOf(stats) ==
  [total_tasks |-> stats.total_tasks,
   completed_tasks |-> SumOrZero(stats.completed_tasks),
   in_progress_tasks |-> SumOrZero(stats.in_progress_tasks),
   pending_tasks |-> SumOrZero(stats.pending_tasks),
   urgent_tasks |-> SumOrZero(stats.urgent_tasks),
   avg_completion |-> RoundedAvg(stats.avg_completion),
   avg_priority_score |-> RoundedAvg(stats.avg_priority_score),
   completion_rate |->
     IF stats.total_tasks > 0
       THEN RoundedPercent(stats.completed_tasks[1], stats.total_tasks)
       ELSE 0]

\* Task.getStatistics(user_id)
getStatistics(tbl, user_id) == StatisticsOf(Aggregate(tbl, user_id))

----------------------------------------------------------------------------
(* SpecRate: the statistics of one owner, from the aggregate row *)

\* the aggregate row of an owner with n tasks of default priority and no
\* due date, c of them COMPLETED and the others TODO
AggregateOf(n, c) ==
  IF n = 0
    THEN [total_tasks |-> 0, completed_tasks |-> NoValue,
          in_progress_tasks |-> NoValue, pending_tasks |-> NoValue,
          urgent_tasks |-> NoValue, avg_completion |-> NoValue,
          avg_priority_score |-> NoValue]
    ELSE [total_tasks |-> n, completed_tasks |-> <<c>>,
          in_progress_tasks |-> <<0>>, pending_tasks |-> <<n - c>>,
          urgent_tasks |-> <<0>>, avg_completion |-> <<100 * c, n>>,
          avg_priority_score |-> <<25 * n, n>>]

InitRate ==
  /\ InitCommon
  /\ now = 0
  /\ out = NoResult
  /\ \E n \in 0 .. MaxOwnerTasks, c \in 0 .. MaxOwnerTasks :
       c <= n /\ obj = AggregateOf(n, c)

CalcStatistics ==
  /\ out' = [op |-> "statistics", value |-> StatisticsOf(obj)]
  /\ UNCHANGED <<tasks, now, obj, res, found, users, calls>>

NextRate == CalcStatistics

SpecRate == InitRate /\ [][NextRate]_vars

----------------------------------------------------------------------------
(* SpecStats: Task.getStatistics on tables filled by Task.create *)

StatsCreateDatas ==
  Both([title : {"a"}, user_id : Users],
       Field("status", {"COMPLETED", "IN_PROGRESS"})
       \cup Field("is_urgent", {JsTrue})
       \cup Field("priority", {"HIGH"}))

\* the owners statistics are asked for: the users, and no owner at all
StatsOwners == Users \cup {Undefined}

GetStatistics(user_id) ==
  /\ found' = Assign([op |-> "getStatistics", user_id |-> user_id],
                     getStatistics(tasks, user_id))
  /\ UNCHANGED <<tasks, now, obj, out, res, users, calls>>

NextStats ==
  \/ \E taskData \in StatsCreateDatas, uuid \in Uuids \ DOMAIN tasks :
       Create(taskData, uuid)
  \/ \E id \in Uuids : Delete(id)
  \/ \E user_id \in StatsOwners : GetStatistics(user_id)

SpecStats == Init /\ [][NextStats]_vars

----------------------------------------------------------------------------
(* User: the model class of the users table *)

\* bcrypt.hash(password, 10)
Hash(password) == "$2a$10$" \o password

\* new User(data); uuid is the value uuidv4() would return
NewUser(data, uuid) ==
  [id |-> Or(Get(data, "id"), uuid),
   username |-> Get(data, "username"),
   email |-> Get(data, "email"),
   password |-> Get(data, "password"),
   created_at |-> GetDate(data, "created_at"),
   updated_at |-> GetDate(data, "updated_at")]

\* User.findByUsername and User.findByEmail on table usrs: whether a row
\* is found
UsernameTaken(usrs, username) ==
  \E i \in DOMAIN usrs : usrs[i].username = Bind(username)
EmailTaken(usrs, email) ==
  \E i \in DOMAIN usrs : usrs[i].email = Bind(email)

\* User.findById(id) on table usrs, for an id of the table
HasUser(usrs, id) == id \in DOMAIN usrs
findUserById(usrs, id) == NewUser(usrs[id], id)

\* the column constraints of a users table declared without UNIQUE
NotNullOnly(usrs, others, row) ==
  /\ row.username # Null
  /\ row.email # Null
  /\ row.password # Null

\* the column constraints of CREATE TABLE users for row, the other rows of
\* the table being those of ids others: NOT NULL and UNIQUE
UserConstraints(usrs, others, row) ==
  /\ row.username # Null
  /\ row.email # Null
  /\ row.password # Null
  /\ \A i \in others :
       usrs[i].username # row.username /\ usrs[i].email # row.email

\* the INSERT of User.create for a user object at clock value t
UserInsert(usrs, user, t) ==
  LET row == [id |-> user.id,
              username |-> Bind(user.username),
              email |-> Bind(user.email),
              password |-> Bind(user.password),
              created_at |-> <<t>>,
              updated_at |-> <<t>>]
  IN IF ~HasUser(usrs, row.id) /\ UserConstraints(usrs, DOMAIN usrs, row)
       THEN [ok |-> TRUE, error |-> "", id |-> row.id,
             table |-> Assign(usrs, [i \in {row.id} |-> row])]
       ELSE [ok |-> FALSE, error |-> "SQLITE_CONSTRAINT", id |-> Null,
             table |-> usrs]

\* the check of the required fields that opens User.create
HasRequired(userData) ==
  /\ Truthy(Get(userData, "username"))
  /\ Truthy(Get(userData, "email"))
  /\ Truthy(Get(userData, "password"))

UserFailure(usrs, error) ==
  [ok |-> FALSE, error |-> error, id |-> Null, table |-> usrs]

\* the user object User.create builds once its checks have passed
HashedUser(userData, uuid) ==
  NewUser(Assign(userData, [password |-> Hash(userData.password)]), uuid)

\* User.create without its two lookups of an existing user
UserCreateUnchecked(usrs, userData, uuid, t) ==
  IF ~HasRequired(userData)
    THEN UserFailure(usrs, "Username, email, and password are required")
  ELSE UserInsert(usrs, HashedUser(userData, uuid), t)

\* User.create(userData) at clock value t, no other call running meanwhile
UserCreate(usrs, userData, uuid, t) ==
  IF ~HasRequired(userData)
    THEN UserFailure(usrs, "Username, email, and password are required")
  ELSE IF UsernameTaken(usrs, userData.username)
    THEN UserFailure(usrs, "Username already exists")
  ELSE IF EmailTaken(usrs, userData.email)
    THEN UserFailure(usrs, "Email already exists")
  ELSE UserInsert(usrs, HashedUser(userData, uuid), t)

\* the columns of the users table
UserColumns ==
  {"id", "username", "email", "password", "created_at", "updated_at"}

\* updateData once User.update has hashed a password it carries
HashedUpdate(updateData) ==
  IF Truthy(Get(updateData, "password"))
    THEN [updateData EXCEPT !.password = Hash(updateData.password)]
    ELSE updateData

\* the UPDATE of User.update at clock value t: the keys of updateData other
\* than id are the columns set.  Without any key the statement does not
\* parse, a key that is no column is an error, and a row that is gone
\* leaves the table as it is
UserUpdateRun(usrs, id, updateData, t) ==
  LET fields == DOMAIN updateData \ {"id"}
  IN IF fields = {} \/ ~(fields \subseteq UserColumns)
       THEN UserFailure(usrs, "SQLITE_ERROR")
     ELSE IF ~HasUser(usrs, id)
       THEN [ok |-> TRUE, error |-> "", id |-> id, table |-> usrs]
     ELSE LET row == [k \in UserColumns |->
                        IF k = "updated_at" THEN <<t>>
                        ELSE IF k \in fields THEN Bind(updateData[k])
                        ELSE usrs[id][k]]
          IN IF UserConstraints(usrs, DOMAIN usrs \ {id}, row)
               THEN [ok |-> TRUE, error |-> "", id |-> id,
                     table |-> [usrs EXCEPT ![id] = row]]
               ELSE UserFailure(usrs, "SQLITE_CONSTRAINT")

\* User.update(id, updateData) at clock value t, no other call running
\* meanwhile
UserUpdate(usrs, id, updateData, t) ==
  IF ~HasUser(usrs, id) THEN UserFailure(usrs, "User not found")
  ELSE UserUpdateRun(usrs, id, HashedUpdate(updateData), t)

\* user.toJSON() without the removal of the password
AllProperties(user) == user

\* user.toJSON(): the own properties but password
toJSON(user) == [k \in DOMAIN user \ {"password"} |-> user[k]]

\* user.toResponse()
toResponse(user) ==
  [id |-> user.id, username |-> user.username, email |-> user.email,
   created_at |-> user.created_at, updated_at |-> user.updated_at]

----------------------------------------------------------------------------
(* SpecUsers: calls of User.create and User.update, one at a time, and the *)
(* two views of a user                                                     *)

\* the ids uuidv4() can return for a user
UserUuids == {"n1", "n2"}

\* the bodies of a registration: username, email and password
RegisterDatas ==
  [username : {"u1", "u3", "u4"}, email : {"u2", "u3"}, password : {"Pw1"}]
  \cup Both(Field("username", {"u4"}),
            Both(Field("email", {"u4", ""}), Field("password", {Null})))

\* the updates of a profile
ProfileUpdates ==
  Field("email", {"u2", "u5"}) \cup Field("password", {"Pw2"})
  \cup [role : {"admin"}]

RegisterUser(userData, uuid) ==
  /\ LET r == UserCreate(users, userData, uuid, now)
     IN /\ Cardinality(DOMAIN r.table) <= MaxUsers
        /\ users' = r.table
        /\ res' = [op |-> "User.create", ok |-> r.ok, error |-> r.error,
                   id |-> r.id, data |-> userData]
  /\ UNCHANGED <<tasks, now, obj, out, found, calls>>

UpdateUser(id, updateData) ==
  /\ LET r == UserUpdate(users, id, updateData, now)
     IN /\ users' = r.table
        /\ res' = [op |-> "User.update", ok |-> r.ok, error |-> r.error,
                   id |-> id, data |-> updateData]
  /\ UNCHANGED <<tasks, now, obj, out, found, calls>>

\* JSON.stringify of a user read from the table
UserToJSON(id) ==
  /\ HasUser(users, id)
  /\ out' = [op |-> "toJSON", id |-> id,
             value |-> toJSON(findUserById(users, id))]
  /\ UNCHANGED <<tasks, now, obj, res, found, users, calls>>

\* the data of a response about a user read from the table
UserToResponse(id) ==
  /\ HasUser(users, id)
  /\ out' = [op |-> "toResponse", id |-> id,
             value |-> toResponse(findUserById(users, id))]
  /\ UNCHANGED <<tasks, now, obj, res, found, users, calls>>

UserIds == Users \cup UserUuids

NextUsers ==
  \/ \E userData \in RegisterDatas, uuid \in UserUuids \ DOMAIN users :
       RegisterUser(userData, uuid)
  \/ \E id \in {"u1", "n3"}, updateData \in ProfileUpdates :
       UpdateUser(id, updateData)
  \/ \E id \in UserIds : UserToJSON(id)
  \/ \E id \in UserIds : UserToResponse(id)

SpecUsers == Init /\ [][NextUsers]_vars

----------------------------------------------------------------------------
(* SpecReads: Task.findById, Task.findAll and Task.getStatistics on tasks   *)
(* written earlier, while the clock advances                               *)

ReadCreateDatas ==
  Both([title : {"a"}, user_id : {"u1"}],
       Field("due_date", {DueSoon}) \cup Field("status", {"IN_PROGRESS"}))

ReadUpdateDatas == Field("priority", {"HIGH"})

ReadOptions == Both([user_id : {"u1"}], Field("sort_by", {"priority_score"}))

FindById(id) ==
  /\ found' = IF HasTask(tasks, id)
                THEN [op |-> "findById", id |-> id, ok |-> TRUE,
                      task |-> findById(tasks, id)]
                ELSE [op |-> "findById", id |-> id, ok |-> FALSE]
  /\ UNCHANGED <<tasks, now, obj, out, res, users, calls>>

NextReads ==
  \/ \E taskData \in ReadCreateDatas, uuid \in Uuids \ DOMAIN tasks :
       Create(taskData, uuid)
  \/ \E id \in Uuids, updateData \in ReadUpdateDatas : Update(id, updateData)
  \/ \E id \in Uuids : FindById(id)
  \/ \E options \in ReadOptions : FindAll(options)
  \/ \E user_id \in {"u1"} : GetStatistics(user_id)
  \/ Tick

SpecReads == Init /\ [][NextReads]_vars

----------------------------------------------------------------------------
(* initializeDatabase: the admin user and the sample tasks, and SpecSeed    *)

\* Math.ceil((a - b) / one day), for instants a and b
CeilDays(a, b) ==
  IF a >= b THEN (a - b + TicksPerDay - 1) \div TicksPerDay
  ELSE 0 - ((b - a) \div TicksPerDay)

\* the completion_percentage the seeding loop computes for a sample task
SeedCompletion(task) == LookupOr(statusPercentages, ToKey(task.status), 0)

\* the due date branch of the seeding loop at clock value t
SeedDueContribution(due_date, t) ==
  IF due_date = NoDate THEN 0
  ELSE LET daysUntilDue == CeilDays(due_date[1], t)
       IN IF daysUntilDue < 0 THEN 40
          ELSE IF daysUntilDue <= 1 THEN 35
          ELSE IF daysUntilDue <= 3 THEN 25
          ELSE IF daysUntilDue <= 7 THEN 15
          ELSE 5

\* the priority_score the seeding loop computes for a sample task when
\* new Date() reads t
SeedPriorityScore(task, t) ==
  LET base == Plus(0, LookupOr(priorityWeights, ToKey(task.priority), 25))
      urgent == IF Truthy(task.is_urgent) THEN Plus(base, 20) ELSE base
      score == Plus(urgent, SeedDueContribution(task.due_date, t))
  IN MathMin100(score)

\* the sampleTasks literal evaluated when Date.now() reads t0
sampleTasks(t0) ==
  <<[id |-> "task-001", title |-> "Complete Project Setup",
     description |-> "Set up the development environment",
     status |-> "COMPLETED", priority |-> "HIGH", is_urgent |-> JsOne,
     due_date |-> <<t0 + TicksPerDay>>, user_id |-> "admin-001"],
    [id |-> "task-002", title |-> "Design Database Schema",
     description |-> "Create the database structure",
     status |-> "IN_PROGRESS", priority |-> "HIGH", is_urgent |-> JsZero,
     due_date |-> <<t0 + 2 * TicksPerDay>>, user_id |-> "admin-001"],
    [id |-> "task-003", title |-> "Implement Authentication",
     description |-> "Build user registration and login",
     status |-> "TODO", priority |-> "URGENT", is_urgent |-> JsOne,
     due_date |-> <<t0 + TicksPerDay \div 2>>, user_id |-> "admin-001"]>>

\* the row one turn of the seeding loop inserts when new Date() reads t
SeedRow(task, t) ==
  [id |-> task.id, title |-> task.title, description |-> task.description,
   status |-> task.status, priority |-> task.priority,
   is_urgent |-> task.is_urgent, due_date |-> task.due_date,
   completion_percentage |-> SeedCompletion(task),
   priority_score |-> SeedPriorityScore(task, t),
   user_id |-> task.user_id, created_at |-> <<t>>, updated_at |-> <<t>>]

\* the users table once the default admin user is there
WithAdmin(usrs, t) ==
  IF UsernameTaken(usrs, "admin") THEN usrs
  ELSE UserInsert(usrs, [id |-> "admin-001", username |-> "admin",
                         email |-> "admin@example.com",
                         password |-> Hash("admin123")], t).table

\* initializeDatabase on the tables as they are: the admin user unless
\* there is one, and the three sample tasks when the tasks table is empty,
\* the clock reading t0 + elapsed[i] in turn i of the loop
InitializeDatabase ==
  /\ users' = WithAdmin(users, now)
  /\ IF DOMAIN tasks # {}
       THEN UNCHANGED <<tasks, now>>
       ELSE \E elapsed \in [1 .. 3 -> 0 .. MaxNow] :
              /\ elapsed[1] <= elapsed[2]
              /\ elapsed[2] <= elapsed[3]
              /\ now + elapsed[3] <= MaxNow
              /\ LET samples == sampleTasks(now)
                 IN tasks' = [id \in {samples[i].id : i \in 1 .. 3} |->
                                LET i == CHOOSE j \in 1 .. 3 : samples[j].id = id
                                IN SeedRow(samples[i], now + elapsed[i])]
              /\ now' = now + elapsed[3]
  /\ res' = [op |-> "initializeDatabase", ok |-> TRUE, error |-> ""]
  /\ UNCHANGED <<obj, out, found, calls>>

\* a sample task of any status, priority, urgency and due date
InitSeed ==
  /\ InitCommon
  /\ now = 0
  /\ out = NoResult
  /\ \E s \in Statuses, p \in Priorities, u \in {JsOne, JsZero},
        d \in DueDates \ {NoDate} :
       obj = [id |-> "task-000", title |-> "a", description |-> "b",
              status |-> s, priority |-> p, is_urgent |-> u, due_date |-> d,
              user_id |-> "admin-001"]

\* the two derived fields as the seeding loop computes them for obj
CalcSeed ==
  /\ out' = [op |-> "seed", at |-> now,
             completion |-> SeedCompletion(obj),
             score |-> SeedPriorityScore(obj, now)]
  /\ UNCHANGED <<tasks, now, obj, res, found, users, calls>>

NextSeed == InitializeDatabase \/ CalcSeed \/ Tick

SpecSeed == InitSeed /\ [][NextSeed]_vars

----------------------------------------------------------------------------
(* SpecConcurrent: calls of Task.update that run concurrently, each taking  *)
(* its steps at the awaits of the code                                     *)

\* the callers that can have a call in flight
Callers == {"p1", "p2"}

\* calls with the entry of caller p set, and the calls of the others kept
WithCall(p, call) == Assign(calls, [q \in {p} |-> call])

\* the UPDATE of Task.update at clock value t for the task object the call
\* holds: it sets every editable column and the two derived ones from the
\* object; a row that is gone leaves the table as it is
UpdateStatement(tbl, id, task, t) ==
  IF ~HasTask(tbl, id)
    THEN [ok |-> TRUE, error |-> "", id |-> id, table |-> tbl]
    ELSE LET row == [RowOf(task, t) EXCEPT !.id = id,
                                           !.user_id = tbl[id].user_id,
                                           !.created_at = tbl[id].created_at]
         IN IF RowConstraints(row)
              THEN [ok |-> TRUE, error |-> "", id |-> id,
                    table |-> [tbl EXCEPT ![id] = row]]
              ELSE [ok |-> FALSE, error |-> "SQLITE_CONSTRAINT", id |-> id,
                    table |-> tbl]

\* Task.update up to its first await: Task.findById(id) has answered
UpdateRead(p, id, updateData) ==
  /\ p \notin DOMAIN calls
  /\ calls' = WithCall(p, IF HasTask(tasks, id)
                            THEN [op |-> "Task.update", pc |-> "read",
                                  id |-> id, data |-> updateData, ok |-> TRUE,
                                  task |-> findById(tasks, id)]
                            ELSE [op |-> "Task.update", pc |-> "done",
                                  id |-> id, data |-> updateData, ok |-> FALSE])
  /\ res' = [op |-> "update", ok |-> HasTask(tasks, id),
             error |-> IF HasTask(tasks, id) THEN "" ELSE "Task not found"]
  /\ UNCHANGED <<tasks, now, obj, out, found, users>>

\* the rest of Task.update: Object.assign on the task that was read, the
\* recalculation, the UPDATE and the return
UpdateWrite(p) ==
  /\ p \in DOMAIN calls
  /\ calls[p].op = "Task.update"
  /\ calls[p].pc = "read"
  /\ LET call == calls[p]
         task == AssignAndRecalculate(call.task, call.data, now)
         r == UpdateStatement(tasks, call.id, task, now)
     IN /\ tasks' = r.table
        /\ res' = [op |-> "update", ok |-> r.ok, error |-> r.error]
        /\ calls' = WithCall(p, [op |-> "Task.update", pc |-> "done",
                                 id |-> call.id, data |-> call.data,
                                 ok |-> r.ok])
  /\ UNCHANGED <<now, obj, out, found, users>>

ConcurrentUpdateDatas ==
  Field("status", {"IN_PROGRESS"}) \cup Field("priority", {"HIGH"})
  \cup Field("title", {"b"}) \cup [status : {"COMPLETED"}, title : {"c"}]

NextConcurrent ==
  \/ \E uuid \in {"t1"} \ DOMAIN tasks :
       Create([title |-> "a", user_id |-> "u1"], uuid)
  \/ \E p \in Callers, updateData \in ConcurrentUpdateDatas :
       UpdateRead(p, "t1", updateData)
  \/ \E p \in Callers : UpdateWrite(p)
  \/ Tick

SpecConcurrent == Init /\ [][NextConcurrent]_vars

----------------------------------------------------------------------------
(* SpecUserCalls: calls of User.create and User.update that run            *)
(* concurrently, each taking its steps at the awaits of the code           *)

\* a call of caller p that has ended, with the error it threw if any
Ended(op, data, ok, error) ==
  [op |-> op, pc |-> "done", data |-> data, ok |-> ok, error |-> error]

\* User.create up to the answer of User.findByUsername
CreateFindUsername(p, userData) ==
  /\ p \notin DOMAIN calls
  /\ calls' = WithCall(p,
       IF ~HasRequired(userData)
         THEN Ended("User.create", userData, FALSE,
                    "Username, email, and password are required")
       ELSE IF UsernameTaken(users, userData.username)
         THEN Ended("User.create", userData, FALSE, "Username already exists")
       ELSE [op |-> "User.create", pc |-> "email", data |-> userData])
  /\ UNCHANGED <<tasks, now, obj, out, res, found, users>>

\* User.create from there to the answer of User.findByEmail
CreateFindEmail(p) ==
  /\ p \in DOMAIN calls
  /\ calls[p].op = "User.create"
  /\ calls[p].pc = "email"
  /\ calls' = WithCall(p,
       IF EmailTaken(users, calls[p].data.email)
         THEN Ended("User.create", calls[p].data, FALSE, "Email already exists")
         ELSE [op |-> "User.create", pc |-> "insert", data |-> calls[p].data])
  /\ UNCHANGED <<tasks, now, obj, out, res, found, users>>

\* the rest of User.create: the hash, new User and the INSERT
CreateInsert(p, uuid) ==
  /\ p \in DOMAIN calls
  /\ calls[p].op = "User.create"
  /\ calls[p].pc = "insert"
  /\ LET r == UserInsert(users, HashedUser(calls[p].data, uuid), now)
     IN /\ Cardinality(DOMAIN r.table) <= MaxUsers
        /\ users' = r.table
        /\ calls' = WithCall(p, Ended("User.create", calls[p].data, r.ok,
                                      r.error))
  /\ UNCHANGED <<tasks, now, obj, out, res, found>>

\* User.update up to the answer of User.findById
ProfileFind(p, id, updateData) ==
  /\ p \notin DOMAIN calls
  /\ calls' = WithCall(p,
       IF HasUser(users, id)
         THEN [op |-> "User.update", pc |-> "run", id |-> id,
               data |-> updateData]
         ELSE Ended("User.update", updateData, FALSE, "User not found"))
  /\ UNCHANGED <<tasks, now, obj, out, res, found, users>>

\* the rest of User.update: the hash, the UPDATE and the return
ProfileRun(p) ==
  /\ p \in DOMAIN calls
  /\ calls[p].op = "User.update"
  /\ calls[p].pc = "run"
  /\ LET r == UserUpdateRun(users, calls[p].id, HashedUpdate(calls[p].data),
                            now)
     IN /\ users' = r.table
        /\ calls' = WithCall(p, Ended("User.update", calls[p].data, r.ok,
                                      r.error))
  /\ UNCHANGED <<tasks, now, obj, out, res, found>>

\* the caller has its answer and can call again
Return(p) ==
  /\ p \in DOMAIN calls
  /\ calls[p].pc = "done"
  /\ calls' = [q \in DOMAIN calls \ {p} |-> calls[q]]
  /\ UNCHANGED <<tasks, now, obj, out, res, found, users>>

\* userData of concurrent registrations, one of them naming an id
ConcurrentRegisterDatas ==
  [username : {"u3"}, email : {"u3", "u4"}, password : {"Pw1"}]
  \cup [username : {"u4"}, email : {"u3"}, password : {"Pw1"}]
  \cup [id : {"u1"}, username : {"u5"}, email : {"u5"}, password : {"Pw1"}]

ConcurrentProfileUpdates ==
  Field("email", {"u2", "u3"}) \cup Field("username", {"u3"})

NextUserCalls ==
  \/ \E p \in Callers, userData \in ConcurrentRegisterDatas :
       CreateFindUsername(p, userData)
  \/ \E p \in Callers : CreateFindEmail(p)
  \/ \E p \in Callers, uuid \in UserUuids \ DOMAIN users : CreateInsert(p, uuid)
  \/ \E p \in Callers, updateData \in ConcurrentProfileUpdates :
       ProfileFind(p, "u1", updateData)
  \/ \E p \in Callers : ProfileRun(p)
  \/ \E p \in Callers : Return(p)

SpecUserCalls == Init /\ [][NextUserCalls]_vars

----------------------------------------------------------------------------
(* The derived fields as the specification states them *)

\* TODO 0, IN_PROGRESS 50, COMPLETED 100, CANCELLED 0, anything else 0
StatedCompletion(status) ==
  CASE status = "IN_PROGRESS" -> 50
    [] status = "COMPLETED" -> 100
    [] OTHER -> 0

StatedBase(priority) ==
  CASE priority = "LOW" -> 10
    [] priority = "HIGH" -> 40
    [] priority = "URGENT" -> 60
    [] OTHER -> 25

\* the due date contribution for a whole-day difference d
StatedDue(d) ==
  IF d < 0 THEN 40
  ELSE IF d <= 1 THEN 35
  ELSE IF d <= 3 THEN 25
  ELSE IF d <= 7 THEN 15
  ELSE 5

\* min(100, base + urgency + due), the whole-day difference counted as the
\* code counts it
StatedScore(priority, urgent, due_date, t) ==
  LET sum == StatedBase(priority) + (IF urgent THEN 20 ELSE 0)
             + (IF due_date = NoDate THEN 0
                ELSE StatedDue(DiffDays(due_date[1], t)))
  IN IF sum < 100 THEN sum ELSE 100

----------------------------------------------------------------------------
(* C1 *)

\* C1: every stored row has completion_percentage equal to the status
\* mapping of its stored status, and priority_score equal to the score of
\* its stored priority, is_urgent and due_date at the time of its last
\* write, whatever keys the create and update calls carried.
C1_DerivedFieldsConsistent ==
  \A id \in DOMAIN tasks :
    LET row == tasks[id]
    IN /\ row.completion_percentage = StatedCompletion(row.status)
       /\ row.priority_score =
            StatedScore(row.priority, row.is_urgent = JsOne, row.due_date,
                        row.updated_at[1])

\* an update that carried its own derived fields and changed the status
\* has been written, after the clock moved
C1_Witness ==
  /\ res.op = "update" /\ res.ok
  /\ \E id \in DOMAIN tasks :
       /\ tasks[id].updated_at[1] > 0
       /\ tasks[id].status = "IN_PROGRESS"
       /\ tasks[id].priority = "LOW"
       /\ tasks[id].completion_percentage = 50
       /\ tasks[id].priority_score = 45

----------------------------------------------------------------------------
(* C2 *)

\* C2: a GET, PUT or DELETE on /api/tasks/:id reaches its route handler only
\* if the task's user_id is the id of the authenticated user.
C2_OnlyOwnerReachesHandler ==
  (res.op \in {"GET", "PUT", "DELETE"} /\ res.handler) => res.owner = res.user

----------------------------------------------------------------------------
(* C3, C4, C5, C6: the scoring functions *)

\* C3: calculatePriorityScore returns min(100, base + urgency + due) with
\* base 10 / 25 / 40 / 60 by priority and 25 for any other priority,
\* urgency 20 when is_urgent holds, and due 40 / 35 / 25 / 15 / 5 by the
\* whole-day difference to the due date, 0 without a due date.
C3_ScoreFormula ==
  out.op = "score" =>
    out.value = StatedScore(obj.priority, Truthy(obj.is_urgent), obj.due_date,
                            out.at)

\* C4: for every priority (recognized or not), is_urgent and due_date the
\* priority score is an integer from 0 to 100.
C4_ScoreInRange ==
  out.op = "score" => (out.value # NaN /\ out.value >= 0 /\ out.value <= 100)

\* C5: a task whose due_date is earlier than the current time by any amount
\* receives the +40 contribution, and one whose due_date is at or after the
\* current time never does (read off a LOW, not urgent task, whose score is
\* 10 plus the contribution).
C5_OverdueGetsForty ==
  (out.op = "score" /\ obj.priority = "LOW" /\ Falsy(obj.is_urgent)
     /\ obj.due_date # NoDate)
  => ((obj.due_date[1] < out.at) <=> (out.value = 10 + 40))

\* C6: calculateCompletionPercentage returns 0 for TODO, 50 for IN_PROGRESS,
\* 100 for COMPLETED, 0 for CANCELLED and 0 for any other status.
C6_CompletionMapping ==
  out.op = "completion" => out.value = StatedCompletion(obj.status)

----------------------------------------------------------------------------
(* C7 *)

\* C7: a task created or updated through the API with an accepted is_urgent
\* value meaning false is stored with is_urgent = 0 and no +20 bonus, and
\* with an accepted value meaning true with is_urgent = 1 and the bonus.
C7_UrgencyBonusMatchesMeaning ==
  (res.op \in {"POST", "PUT"} /\ res.code \in {200, 201}
     /\ IsBooleanValue(res.is_urgent))
  => LET row == tasks[res.id]
         meansTrue == res.is_urgent \in {JsTrue, JsOne, "true", "1"}
     IN /\ row.is_urgent = (IF meansTrue THEN JsOne ELSE JsZero)
        /\ row.priority_score =
             StatedScore(row.priority, meansTrue, row.due_date, row.updated_at[1])

----------------------------------------------------------------------------
(* C8, C9, C10: Task.findAll *)

\* C8: every task Task.findAll returns, and every task counted in
\* pagination.total, has user_id equal to options.user_id, also when the
\* user_id of the options is missing or empty.
C8_OwnerFilterAlwaysApplied ==
  (found.op = "findAll" /\ found.ok) =>
    /\ \A i \in 1 .. Len(found.tasks) :
         found.tasks[i].user_id = Get(found.options, "user_id")
    /\ \A c \in found.counted : c[2] = Get(found.options, "user_id")

\* C9: the column placed in ORDER BY is one of the eight allowed columns,
\* and a sort_by value outside them is replaced by created_at.
C9_SortColumnAllowed ==
  (found.op = "findAll" /\ found.ok) =>
    /\ found.query.order_by \in
         {"title", "status", "priority", "due_date", "created_at",
          "updated_at", "completion_percentage", "priority_score"}
    /\ ("sort_by" \in DOMAIN found.options
          /\ found.options.sort_by \notin
               {"title", "status", "priority", "due_date", "created_at",
                "updated_at", "completion_percentage", "priority_score"})
       => found.query.order_by = "created_at"

\* a call with a sort_by outside the allowed columns has returned tasks
C9_Witness ==
  /\ found.op = "findAll" /\ found.ok
  /\ Get(found.options, "sort_by") = "id; DROP TABLE tasks"
  /\ Len(found.tasks) > 0
  /\ found.query.order_by = "created_at"

\* C10: the effective order is ASC for a sort_order equal to ASC ignoring
\* case, DESC for one equal to DESC ignoring case, and DESC for anything
\* else, absent and non-string values included, and the call does not fail.
C10_SortOrderFallback ==
  found.op = "findAll" =>
    /\ found.ok
    /\ found.sorting.sort_order =
         (IF Get(found.options, "sort_order") \in {"ASC", "asc", "Asc"}
            THEN "ASC" ELSE "DESC")

----------------------------------------------------------------------------
(* C11, C12, C13, C14: Task.findAll, pagination and filters *)

\* the page and limit of a call, with their defaults
PageOf(options) == IF "page" \in DOMAIN options THEN options.page ELSE 1
LimitOf(options) == IF "limit" \in DOMAIN options THEN options.limit ELSE 10

\* C11: for page >= 1 and limit in 1..100 (page 1 and limit 10 when absent)
\* the query carries LIMIT = limit and OFFSET = (page - 1) * limit, and the
\* tasks returned are those at positions (page-1)*limit+1 .. page*limit of
\* the ordered result.
C11_PageWindow ==
  (found.op = "findAll" /\ found.ok) =>
    LET page == PageOf(found.options)
        limit == LimitOf(found.options)
        window == {i \in 1 .. Len(found.ordered) :
                     (page - 1) * limit + 1 <= i /\ i <= page * limit}
    IN (page >= 1 /\ limit \in 1 .. 100) =>
         /\ found.query.limit = limit
         /\ found.query.offset = (page - 1) * limit
         /\ Len(found.tasks) = Cardinality(window)
         /\ \A k \in 1 .. Len(found.tasks) :
              found.tasks[k].id = found.ordered[(page - 1) * limit + k]

\* the second page of one task has been read from a result of two
C11_Witness ==
  /\ found.op = "findAll" /\ found.ok
  /\ PageOf(found.options) = 2 /\ LimitOf(found.options) = 1
  /\ Len(found.ordered) = 2
  /\ Len(found.tasks) = 1
  /\ found.tasks[1].id = found.ordered[2]

\* C12: with a page below 1 or a limit outside 1..100 Task.findAll does not
\* throw, and the LIMIT and OFFSET of its query satisfy 1 <= LIMIT <= 100
\* and OFFSET >= 0.
C12_PaginationFallsBack ==
  (found.op = "findAll"
     /\ (PageOf(found.options) < 1 \/ LimitOf(found.options) \notin 1 .. 100))
  => /\ found.ok
     /\ found.query.limit \in 1 .. 100
     /\ found.query.offset >= 0

\* the tasks of the owner that equal each filter the options carry
OwnersMatching(tbl, options) ==
  {id \in DOMAIN tbl :
     /\ tbl[id].user_id = options.user_id
     /\ "status" \in DOMAIN options => tbl[id].status = options.status
     /\ "priority" \in DOMAIN options => tbl[id].priority = options.priority
     /\ "is_urgent" \in DOMAIN options =>
          tbl[id].is_urgent = (IF options.is_urgent = JsTrue THEN JsOne ELSE JsZero)}

\* C13: for every combination of the filters status, priority and is_urgent
\* given with an owner, the tasks Task.findAll matches (those it counts and
\* pages through) are exactly the owner's tasks equal to each supplied
\* filter; an absent filter excludes nothing and is_urgent = false selects
\* the tasks whose flag is 0.
C13_FiltersSelectExactly ==
  [][(/\ found'.op = "findAll" /\ found'.ok
      /\ UNCHANGED <<tasks, now, res>>
      /\ Get(found'.options, "user_id") \in Users
      /\ "search" \notin DOMAIN found'.options)
     => /\ {c[1] : c \in found'.counted} = OwnersMatching(tasks, found'.options)
        /\ {found'.ordered[i] : i \in 1 .. Len(found'.ordered)}
             = OwnersMatching(tasks, found'.options)
        /\ found'.pagination.total
             = Cardinality(OwnersMatching(tasks, found'.options))]_vars

\* a call filtering on is_urgent = false matched a task of the owner and
\* left out an urgent one
C13_Witness ==
  /\ found.op = "findAll" /\ found.ok
  /\ Get(found.options, "is_urgent") = JsFalse
  /\ Get(found.options, "status") = "TODO"
  /\ found.pagination.total = 1
  /\ \E id \in DOMAIN tasks :
       /\ tasks[id].user_id = found.options.user_id
       /\ tasks[id].is_urgent = JsOne
       /\ \A i \in 1 .. Len(found.ordered) : found.ordered[i] # id

\* the filters of the result
ReportedFilters == {"status", "priority", "is_urgent", "search"}

----------------------------------------------------------------------------
(* C15, C16: Task.getStatistics *)

\* round(100 * completed / total): the integer nearest to the quotient,
\* the upper one of two equally near
StatedRate(completed, total) ==
  CHOOSE r \in 0 .. 100 :
    /\ 2 * r * total - total <= 200 * completed
    /\ 200 * completed < 2 * r * total + total

\* C15: Task.getStatistics returns completion_rate =
\* round(100 * completed_tasks / total_tasks) for an owner with at least
\* one task, and total_tasks = 0, completion_rate = 0 and every other
\* count and average 0 for an owner with none.
C15_CompletionRate ==
  out.op = "statistics" =>
    LET v == out.value
    IN IF obj.total_tasks > 0
         THEN v.completion_rate = StatedRate(v.completed_tasks, v.total_tasks)
         ELSE /\ v.total_tasks = 0 /\ v.completion_rate = 0
              /\ v.completed_tasks = 0 /\ v.in_progress_tasks = 0
              /\ v.pending_tasks = 0 /\ v.urgent_tasks = 0
              /\ v.avg_completion = 0 /\ v.avg_priority_score = 0

\* whether r is the mean of column over the ids rounded to the nearest
\* integer, halves up (0 over no ids)
IsRoundedMean(r, tbl, ids, column) ==
  LET n == Cardinality(ids)
      sum == SumOf(tbl, ids, column)
  IN IF n = 0 THEN r = 0
     ELSE 2 * r * n - n <= 2 * sum /\ 2 * sum < 2 * r * n + n

\* C16: Task.getStatistics(u) reports the number of u's tasks, the numbers
\* of u's tasks that are COMPLETED, IN_PROGRESS and TODO, the number with
\* is_urgent set, and the rounded means of the stored
\* completion_percentage and priority_score over u's tasks; the tasks of
\* other owners do not enter any of them.
C16_StatisticsOfOwner ==
  [][(found'.op = "getStatistics" /\ UNCHANGED <<tasks, now, res>>)
     => LET own == {id \in DOMAIN tasks : tasks[id].user_id = found'.user_id}
            count(status) ==
              Cardinality({id \in own : tasks[id].status = status})
        IN /\ found'.total_tasks = Cardinality(own)
           /\ found'.completed_tasks = count("COMPLETED")
           /\ found'.in_progress_tasks = count("IN_PROGRESS")
           /\ found'.pending_tasks = count("TODO")
           /\ found'.urgent_tasks =
                Cardinality({id \in own : tasks[id].is_urgent = JsOne})
           /\ IsRoundedMean(found'.avg_completion, tasks, own,
                            "completion_percentage")
           /\ IsRoundedMean(found'.avg_priority_score, tasks, own,
                            "priority_score")]_vars

\* statistics were read for an owner with one task, an urgent one, while
\* another owner held a completed task
C16_Witness ==
  /\ found.op = "getStatistics"
  /\ found.total_tasks = 1 /\ found.urgent_tasks = 1
  /\ found.completed_tasks = 0 /\ found.avg_priority_score = 45
  /\ \E id \in DOMAIN tasks :
       tasks[id].user_id # found.user_id /\ tasks[id].status = "COMPLETED"

----------------------------------------------------------------------------
(* C17, C18, C19, C20 *)

\* C17: no step changes the id or the user_id of a stored task, whatever
\* id or user_id keys the updateData of Task.update or the body of a PUT
\* carries, and a task stored by POST /api/tasks has the authenticated
\* user as its user_id, whatever user_id the body carries.
C17_IdAndOwnerFixed ==
  [][/\ \A id \in DOMAIN tasks \cap DOMAIN tasks' :
          tasks'[id].id = tasks[id].id /\ tasks'[id].user_id = tasks[id].user_id
     /\ res'.op \in {"update", "PUT"} => DOMAIN tasks' = DOMAIN tasks
     /\ res'.op = "POST" =>
          \A id \in DOMAIN tasks' \ DOMAIN tasks : tasks'[id].user_id = res'.user]_vars

\* a PUT whose body named another id and another owner has updated the
\* task, which still has its id and its owner
C17_Witness ==
  /\ res.op = "PUT" /\ res.code = 200
  /\ Get(res.body, "id") = "t2" /\ res.id = "t1"
  /\ Get(res.body, "user_id") = "u2" /\ res.user = "u1"
  /\ tasks["t1"].status = "IN_PROGRESS"
  /\ tasks["t1"].id = "t1" /\ tasks["t1"].user_id = "u1"

\* C18: a Task.delete(id) that returns true leaves no row with that id, so
\* that findById gives null and neither the WHERE clause of findAll nor the
\* one of getStatistics selects it, and changes no other row; a
\* Task.delete of an id that is not stored returns false and leaves the
\* table as it was.
C18_DeleteExactlyOne ==
  [][(res'.op = "delete" /\ UNCHANGED <<found, now>>)
     => /\ res'.ok <=> res'.id \in DOMAIN tasks
        /\ ~HasTask(tasks', res'.id)
        /\ \A options \in QueryOptions : res'.id \notin Matched(tasks', options)
        /\ \A user_id \in Users :
             /\ res'.id \notin StatRows(tasks', user_id)
             /\ getStatistics(tasks', user_id).total_tasks
                  = Cardinality(StatRows(tasks, user_id) \ {res'.id})
        /\ DOMAIN tasks' = DOMAIN tasks \ {res'.id}
        /\ \A other \in DOMAIN tasks' : tasks'[other] = tasks[other]
        /\ ~res'.ok => tasks' = tasks]_vars

\* a task has been deleted and another one is still stored
C18_Witness ==
  /\ res.op = "delete" /\ res.ok
  /\ res.id \notin DOMAIN tasks
  /\ DOMAIN tasks # {}

\* C19: Task.create of a taskData whose title or user_id is missing or
\* empty fails with 'Title and user_id are required' and stores nothing;
\* a task it stores has status TODO, priority MEDIUM, is_urgent 0 and
\* completion_percentage 0 where the taskData omits status, priority and
\* is_urgent, and priority_score 25 when it also has no due_date.
C19_RequiredAndDefaults ==
  /\ (Falsy(Get(obj, "title")) \/ Falsy(Get(obj, "user_id"))) =>
       /\ tasks = << >>
       /\ res.op = "create" =>
            ~res.ok /\ res.error = "Title and user_id are required"
  /\ \A id \in DOMAIN tasks :
       /\ "status" \notin DOMAIN obj =>
            tasks[id].status = "TODO" /\ tasks[id].completion_percentage = 0
       /\ "priority" \notin DOMAIN obj => tasks[id].priority = "MEDIUM"
       /\ "is_urgent" \notin DOMAIN obj => tasks[id].is_urgent = JsZero
       /\ DOMAIN obj \cap {"priority", "is_urgent", "due_date"} = {} =>
            tasks[id].priority_score = 25

\* a create with an empty title has failed
C19_Witness ==
  /\ res.op = "create" /\ ~res.ok
  /\ res.error = "Title and user_id are required"
  /\ Get(obj, "title") = "" /\ Get(obj, "user_id") = "u1"
  /\ tasks = << >>

\* C20: authenticateToken calls next, with req.user an existing user, only
\* for a bearer token that verifies and whose userId is in the users table
\* at that moment; otherwise it answers 401 and the handler does not run,
\* with 'Access token required' without a token, 'Token expired' for an
\* expired one and 'Invalid token' for a malformed one or one of a user
\* that is gone.
C20_OnlyExistingUserPasses ==
  [][(res'.op = "GET" /\ "header" \in DOMAIN res'
        /\ UNCHANGED <<tasks, now, users, found>>)
     => LET header == res'.header
            verifies == Len(header) >= 2 /\ jwtVerify(header[2], now) = "ok"
            passes == verifies /\ header[2].userId \in DOMAIN users
        IN /\ res'.authenticated <=> passes
           /\ res'.authenticated => res'.user \in DOMAIN users
           /\ ~res'.authenticated =>
                /\ ~res'.handler
                /\ res'.code = 401
                /\ Len(header) < 2 => res'.error = "Access token required"
                /\ (Len(header) >= 2 /\ header[2].sig = "bad")
                     => res'.error = "Invalid token"
                /\ (verifies /\ ~passes) => res'.error = "Invalid token"
                /\ (Len(header) >= 2 /\ header[2].sig = "good"
                      /\ header[2].nbf <= now /\ now >= header[2].exp)
                     => res'.error = "Token expired"]_vars

----------------------------------------------------------------------------
(* C21 *)

\* C21: a User.create whose username or whose email is held by a row of
\* the users table fails with 'Username already exists' or 'Email already
\* exists' and leaves the table as it was; one with a fresh username and a
\* fresh email (and the password it requires) adds exactly one row, with
\* that username and email, and leaves the other rows as they were.
C21_DuplicateRejected ==
  [][(res'.op = "User.create" /\ UNCHANGED out
        /\ Truthy(Get(res'.data, "username"))
        /\ Truthy(Get(res'.data, "email"))
        /\ Truthy(Get(res'.data, "password")))
     => LET data == res'.data
            held == \E i \in DOMAIN users :
                      \/ users[i].username = data.username
                      \/ users[i].email = data.email
        IN IF held
             THEN /\ ~res'.ok
                  /\ res'.error \in {"Username already exists",
                                     "Email already exists"}
                  /\ users' = users
             ELSE /\ res'.ok
                  /\ Cardinality(DOMAIN users') = Cardinality(DOMAIN users) + 1
                  /\ \A i \in DOMAIN users :
                       i \in DOMAIN users' /\ users'[i] = users[i]
                  /\ \A i \in DOMAIN users' \ DOMAIN users :
                       /\ users'[i].username = data.username
                       /\ users'[i].email = data.email]_vars

\* a user was registered, and a later registration with the email of that
\* user was rejected
C21_Witness ==
  /\ res.op = "User.create"
  /\ res.error = "Email already exists"
  /\ \E i \in DOMAIN users \ Users : users[i].email = res.data.email
  /\ ~(\E i \in DOMAIN users : users[i].username = res.data.username)

----------------------------------------------------------------------------
(* C22, C23: the validation chains of POST /api/tasks and PUT /api/tasks/:id *)

\* the rules of the two chains as the API states them: a title of at least
\* one character (required by POST), status and priority of the two enums,
\* a boolean is_urgent
StatedValid(op, body) ==
  /\ (op = "POST" \/ "title" \in DOMAIN body)
       => Get(body, "title") \notin NonStrings \cup {""}
  /\ "status" \in DOMAIN body
       => body.status \in {"TODO", "IN_PROGRESS", "COMPLETED", "CANCELLED"}
  /\ "priority" \in DOMAIN body
       => body.priority \in {"LOW", "MEDIUM", "HIGH", "URGENT"}
  /\ "is_urgent" \in DOMAIN body
       => body.is_urgent \in {JsTrue, JsFalse, JsOne, JsZero,
                              "true", "false", "1", "0"}

\* C22: a POST or PUT whose body fails a rule of its validation chain is
\* answered 400 'Validation failed', neither the ownership check nor the
\* route handler runs and the tasks table is unchanged; when every rule
\* passes the validator sends nothing and the request goes on to the next
\* middleware or the handler.
C22_ValidationStopsChain ==
  [][(res'.op \in {"POST", "PUT"})
     => IF StatedValid(res'.op, res'.body)
          THEN /\ "error" \notin DOMAIN res'
               /\ res'.code # 400
               /\ res'.op = "POST" => res'.handler
               /\ res'.op = "PUT" =>
                    (res'.handler <=> (res'.id \in DOMAIN tasks
                                         /\ tasks[res'.id].user_id = res'.user))
          ELSE /\ res'.code = 400
               /\ res'.error = "Validation failed"
               /\ ~res'.handler
               /\ tasks' = tasks]_vars

\* a PUT of the owner on a stored task was stopped by the validator
C22_Witness ==
  /\ res.op = "PUT"
  /\ res.code = 400
  /\ res.id \in DOMAIN tasks
  /\ tasks[res.id].user_id = res.user
  /\ "status" \in DOMAIN res.body

\* the value a body carries for key k, and otherwise when it omits it
Carried(body, k, otherwise) == IF k \in DOMAIN body THEN body[k] ELSE otherwise

\* C23: after every POST and PUT each stored task has a status and a
\* priority of the enums; a request carrying another status or priority is
\* answered 400 before the handler runs and changes nothing, a POST that
\* omits them stores TODO and MEDIUM, and a PUT that omits them keeps the
\* stored values.
C23_EnumsStored ==
  [][(res'.op \in {"POST", "PUT"})
     => LET body == res'.body
            badStatus == "status" \in DOMAIN body /\ body.status \notin Statuses
            badPriority == "priority" \in DOMAIN body
                             /\ body.priority \notin Priorities
        IN /\ \A id \in DOMAIN tasks' :
                /\ tasks'[id].status \in Statuses
                /\ tasks'[id].priority \in Priorities
           /\ (badStatus \/ badPriority)
                => res'.code = 400 /\ ~res'.handler /\ tasks' = tasks
           /\ (res'.op = "POST" /\ res'.code = 201) =>
                /\ tasks'[res'.id].status = Carried(body, "status", "TODO")
                /\ tasks'[res'.id].priority = Carried(body, "priority", "MEDIUM")
           /\ (res'.op = "PUT" /\ res'.code = 200) =>
                /\ tasks'[res'.id].status =
                     Carried(body, "status", tasks[res'.id].status)
                /\ tasks'[res'.id].priority =
                     Carried(body, "priority", tasks[res'.id].priority)]_vars

\* a task created with a status of its own and the default priority was
\* then updated in its priority only
C23_Witness ==
  /\ res.op = "PUT"
  /\ res.code = 200
  /\ DOMAIN res.body = {"priority"}
  /\ tasks[res.id].status = "COMPLETED"
  /\ tasks[res.id].priority = "LOW"

----------------------------------------------------------------------------
(* C24 *)

\* whether a task object carries the two derived fields of its stored row
AsStored(task) ==
  /\ task.id \in DOMAIN tasks
  /\ task.completion_percentage = tasks[task.id].completion_percentage
  /\ task.priority_score = tasks[task.id].priority_score

\* C24: Task.findById, Task.findAll and Task.getStatistics leave the tasks
\* table as it is; every task object the first two return carries the
\* completion_percentage and priority_score of its stored row, and the two
\* averages of the statistics are those of the stored values, whatever the
\* clock says at the time of the read.
C24_ReadsReturnStored ==
  [][(found' # found)
     => /\ tasks' = tasks
        /\ (found'.op = "findById" /\ found'.ok) => AsStored(found'.task)
        /\ (found'.op = "findAll" /\ found'.ok) =>
             \A i \in 1 .. Len(found'.tasks) : AsStored(found'.tasks[i])
        /\ found'.op = "getStatistics" =>
             LET own == {id \in DOMAIN tasks : tasks[id].user_id = found'.user_id}
             IN /\ IsRoundedMean(found'.avg_completion, tasks, own,
                                 "completion_percentage")
                /\ IsRoundedMean(found'.avg_priority_score, tasks, own,
                                 "priority_score")]_vars

\* a task was read after the clock had moved its due date into another
\* bucket than the one its stored score was computed for
C24_Witness ==
  /\ found.op = "findById"
  /\ found.ok
  /\ found.id \in DOMAIN tasks
  /\ found.task.due_date # NoDate
  /\ found.task.priority_score = tasks[found.id].priority_score
  /\ found.task.priority_score #
       StatedScore(found.task.priority, FALSE, found.task.due_date, now)

----------------------------------------------------------------------------
(* C25 *)

\* C25: the objects user.toJSON() and user.toResponse() produce for a user
\* read from the users table have no password property, while they do
\* have the id, the username and the email, whichever registration and
\* updates the row has seen.
C25_NoPasswordReturned ==
  out.op \in {"toJSON", "toResponse"} =>
    /\ "password" \notin DOMAIN out.value
    /\ {"id", "username", "email"} \subseteq DOMAIN out.value

\* the JSON view of a registered user was produced after the password of
\* the first user had been changed
C25_Witness ==
  /\ out.op = "toJSON"
  /\ out.id \in DOMAIN users \ Users
  /\ users[out.id].password # "hash"
  /\ out.value.username = users[out.id].username
  /\ users["u1"].password # "hash"

----------------------------------------------------------------------------
(* C26 *)

\* C26: the completion_percentage and priority_score the seeding loop of
\* initializeDatabase computes for a sample task equal what
\* calculateCompletionPercentage and calculatePriorityScore return for a
\* task of the same status, priority, is_urgent and due_date at the same
\* clock value, both for the three sample tasks as stored and for a sample
\* task of any due date.
C26_SeedingAgrees ==
  /\ out.op = "seed" =>
       /\ out.completion = calculateCompletionPercentage(NewTask(obj, obj.id))
       /\ out.score = calculatePriorityScore(NewTask(obj, obj.id), out.at)
  /\ \A id \in DOMAIN tasks \cap {"task-001", "task-002", "task-003"} :
       /\ tasks[id].completion_percentage =
            calculateCompletionPercentage(findById(tasks, id))
       /\ tasks[id].priority_score =
            calculatePriorityScore(findById(tasks, id), tasks[id].created_at[1])

----------------------------------------------------------------------------
(* C27 *)

\* the fields of a task a client can edit
EditableFields ==
  {"title", "description", "status", "priority", "is_urgent", "due_date"}

\* whether the stored task shows what the completed call of caller p set
Reflected(p) ==
  \A k \in DOMAIN calls[p].data : tasks[calls[p].id][k] = calls[p].data[k]

\* whether two calls of Task.update on one task, naming disjoint fields,
\* have both completed
BothCompleted ==
  /\ DOMAIN calls = {"p1", "p2"}
  /\ \A p \in {"p1", "p2"} : calls[p].pc = "done" /\ calls[p].ok
  /\ calls["p1"].id = calls["p2"].id
  /\ DOMAIN calls["p1"].data \cap DOMAIN calls["p2"].data = {}

\* C27: the write of a Task.update leaves every editable field its
\* updateData does not name as it was stored, and once two calls on the
\* same task with disjoint field sets have both completed, in whatever
\* order their reads and writes were taken, the stored task shows the
\* values of both.
C27_NoLostUpdate ==
  [][(\E p \in DOMAIN calls : calls[p].pc = "read" /\ calls'[p].pc = "done")
     => /\ \A p \in DOMAIN calls :
             (calls[p].pc = "read" /\ calls'[p].pc = "done" /\ calls'[p].ok)
             => \A k \in EditableFields \ DOMAIN calls[p].data :
                  tasks'[calls[p].id][k] = tasks[calls[p].id][k]
        /\ BothCompleted' => (Reflected("p1")' /\ Reflected("p2")')]_vars

----------------------------------------------------------------------------
(* C28 *)

\* C28: no two rows of the users table share a username, and no two share
\* an email, in every state reached by User.create and User.update calls
\* whose steps interleave in any order.
C28_UsernamesAndEmailsUnique ==
  \A i \in DOMAIN users : \A j \in DOMAIN users \ {i} :
    /\ users[i].username # users[j].username
    /\ users[i].email # users[j].email

\* two User.create calls with the same username both passed the lookups
\* before either inserted; one inserted its row and the other was refused
C28_Witness ==
  /\ DOMAIN calls = {"p1", "p2"}
  /\ \A p \in {"p1", "p2"} : calls[p].op = "User.create" /\ calls[p].pc = "done"
  /\ calls["p1"].data.username = calls["p2"].data.username
  /\ calls["p1"].ok
  /\ ~calls["p2"].ok
  /\ calls["p2"].error = "SQLITE_CONSTRAINT"
  /\ \E i \in DOMAIN users : users[i].username = calls["p1"].data.username

----------------------------------------------------------------------------
(* C29 *)

\* C29: a POST /api/tasks or a Task.create leaves every stored task as it
\* was; when the body of the POST carries the id of a stored task, of
\* whichever owner, the create fails and the table is unchanged; and every
\* row is stored under its own id, one row per id.
C29_CreateNeverOverwrites ==
  [][(res'.op \in {"POST", "create"} /\ UNCHANGED now)
     => /\ \A id \in DOMAIN tasks :
             id \in DOMAIN tasks' /\ tasks'[id] = tasks[id]
        /\ (res'.op = "POST" /\ Get(res'.body, "id") \in DOMAIN tasks)
             => /\ res'.code \notin {200, 201}
                /\ tasks' = tasks
        /\ \A id \in DOMAIN tasks' : tasks'[id].id = id
        /\ Cardinality(DOMAIN tasks') <= Cardinality(DOMAIN tasks) + 1]_vars

\* a POST of one user named the id of a task of the other user, with
\* another title, and failed
C29_Witness ==
  /\ res.op = "POST"
  /\ res.code = 500
  /\ Get(res.body, "id") \in DOMAIN tasks
  /\ tasks[res.body.id].user_id # res.user
  /\ tasks[res.body.id].title # res.body.title

----------------------------------------------------------------------------
(* C30 *)

\* the smaller and the larger of two integers
Smaller(a, b) == IF a <= b THEN a ELSE b
Larger(a, b) == IF a >= b THEN a ELSE b

\* C30: for every Task.findAll that returns, pagination.total is the
\* number of tasks the conditions of the page query select,
\* pagination.pages is ceil(total / limit), and the page holds
\* min(limit, max(0, total - offset)) tasks with offset = (page - 1) * limit,
\* so that a page beyond the last is an empty list.
C30_PaginationTotals ==
  (found.op = "findAll" /\ found.ok) =>
    LET page == PageOf(found.options)
        limit == LimitOf(found.options)
        offset == (page - 1) * limit
        total == found.pagination.total
        pages == found.pagination.pages
    IN /\ total = Len(found.ordered)
       /\ limit > 0 => (pages * limit >= total /\ (pages - 1) * limit < total)
       /\ Len(found.tasks) = Smaller(limit, Larger(0, total - offset))

====
